---- MODULE Spec2Model ----
(***************************************************************************)
(* Model of the insurer website crawl-and-extract engine                   *)
(* (src/src/product_crawler.py, document_processing.py, models.py,         *)
(* utils.py).  Strings are sequences of one-character strings, so that     *)
(* slugs, substring tests and URL parsing are computed, not assumed.       *)
(***************************************************************************)
EXTENDS Integers, Sequences, FiniteSets, TLC

(***************************************************************************)
(* Characters and strings                                                  *)
(***************************************************************************)
UpperChars ==
    <<"A","B","C","D","E","F","G","H","I","J","K","L","M",
      "N","O","P","Q","R","S","T","U","V","W","X","Y","Z">>

LowerChars ==
    <<"a","b","c","d","e","f","g","h","i","j","k","l","m",
      "n","o","p","q","r","s","t","u","v","w","x","y","z">>

DigitChars == {"0","1","2","3","4","5","6","7","8","9"}

\* "\n" and " " are the whitespace characters of the model (regex \s).
SpaceChars == {" ", "\n"}

\* One Devanagari letter and one accented Latin letter stand for the
\* non-ASCII input the utilities treat specially.
HindiChars == {"U+0915"}
AccentBase == [c \in {"U+00E9"} |-> "e"]

Range(s) == {s[i] : i \in 1..Len(s)}

UpperSet == Range(UpperChars)
LowerSet == Range(LowerChars)
WordSet == UpperSet \cup LowerSet \cup DigitChars \cup {"_"}

IsUpperChar(c) == c \in UpperSet
IsLowerChar(c) == c \in LowerSet

\* the lower-case letter of each upper-case letter
LowerOf ==
    [c \in UpperSet |-> LowerChars[CHOOSE i \in 1..Len(UpperChars) : UpperChars[i] = c]]
    @@ [c \in {} |-> c]

\* str.lower() on one character
LowerChar(c) == IF c \in UpperSet THEN LowerOf[c] ELSE c

\* str.lower()
Lower(s) == [i \in 1..Len(s) |-> LowerChar(s[i])]

\* s[a..b] (1-based, inclusive), empty when a > b
Slice(s, a, b) == IF a > b THEN <<>> ELSE SubSeq(s, a, b)

\* Python's "needle in hay" on strings
Contains(hay, needle) ==
    \E i \in 0..(Len(hay) - Len(needle)) :
        Slice(hay, i + 1, i + Len(needle)) = needle

\* str.startswith / str.endswith
StartsWith(s, p) == Len(p) <= Len(s) /\ Slice(s, 1, Len(p)) = p
EndsWith(s, p) == Len(p) <= Len(s) /\ Slice(s, Len(s) - Len(p) + 1, Len(s)) = p

\* filter of a sequence by membership of its elements in a set
KeepChars(s, keep) == SelectSeq(s, LAMBDA c : c \in keep)

\* str.strip() for the characters of `ws`
RECURSIVE LStrip(_, _)
LStrip(s, ws) ==
    IF s # <<>> /\ Head(s) \in ws THEN LStrip(Tail(s), ws) ELSE s

RECURSIVE RStrip(_, _)
RStrip(s, ws) ==
    IF s # <<>> /\ s[Len(s)] \in ws THEN RStrip(Slice(s, 1, Len(s) - 1), ws) ELSE s

Strip(s, ws) == RStrip(LStrip(s, ws), ws)

\* re.sub(r"[cls]+", rep, s) for a one-character rep: every maximal run of
\* characters of `cls` becomes `rep`
CollapseRuns(s, cls, rep) ==
    LET kept == SelectSeq([i \in 1..Len(s) |-> i],
                          LAMBDA i : s[i] \notin cls \/ i = 1 \/ s[i - 1] \notin cls)
    IN  [k \in 1..Len(kept) |-> IF s[kept[k]] \in cls THEN rep[1] ELSE s[kept[k]]]

(***************************************************************************)
(* utils.py                                                                *)
(***************************************************************************)
\* normalize_whitespace: WHITESPACE_RE.sub(" ", value).strip()
normalize_whitespace(value) == Strip(CollapseRuns(value, SpaceChars, <<" ">>), SpaceChars)

\* strip_hindi: HINDI_RE.sub("", value)
strip_hindi(value) == KeepChars(value, Range(value) \ HindiChars)

\* clean_text
clean_text(value) == normalize_whitespace(strip_hindi(value))

\* unicodedata.normalize("NFKD", v).encode("ascii", "ignore").decode("ascii")
AsciiFold(s) ==
    LET ascii == SelectSeq(s, LAMBDA c : c \notin HindiChars)
    IN  [i \in 1..Len(ascii) |->
            IF ascii[i] \in DOMAIN AccentBase THEN AccentBase[ascii[i]] ELSE ascii[i]]

\* slugify
slugify(value) ==
    IF value = <<>> THEN <<>>
    ELSE LET ascii == AsciiFold(value)
             word  == KeepChars(ascii, WordSet \cup SpaceChars \cup {"-"})
         IN  CollapseRuns(Lower(Strip(word, SpaceChars)), SpaceChars \cup {"-"}, <<"-">>)

\* iter_unique: unique non-empty values, first occurrences, order preserved.
\* Its values are tags: names of a fixed enumeration, kept as atoms.
RECURSIVE iter_unique_from(_, _)
iter_unique_from(values, seen) ==
    IF values = <<>> THEN <<>>
    ELSE IF Head(values) # "" /\ Head(values) \notin seen
         THEN <<Head(values)>> \o iter_unique_from(Tail(values), seen \cup {Head(values)})
         ELSE iter_unique_from(Tail(values), seen)

iter_unique(values) == iter_unique_from(values, {})

(***************************************************************************)
(* URLs (urllib.parse on the URL shapes the model uses: an optional        *)
(* scheme, an optional //netloc, a path, an optional ?query or #fragment)  *)
(***************************************************************************)
SchemeChars == UpperSet \cup LowerSet \cup DigitChars \cup {"+", "-", "."}

\* index of the first character of s that is in cs, or 0
FirstIn(s, cs) ==
    IF \E i \in 1..Len(s) : s[i] \in cs
    THEN CHOOSE i \in 1..Len(s) : s[i] \in cs /\ \A j \in 1..(i - 1) : s[j] \notin cs
    ELSE 0

\* index of the last character of s that is in cs, or 0
LastIn(s, cs) ==
    IF \E i \in 1..Len(s) : s[i] \in cs
    THEN CHOOSE i \in 1..Len(s) : s[i] \in cs /\ \A j \in (i + 1)..Len(s) : s[j] \notin cs
    ELSE 0

\* a string cut before index i (i = 0: not cut at all)
CutAt(s, i) ==
    IF i = 0 THEN [head |-> s, rest |-> <<>>]
    ELSE [head |-> Slice(s, 1, i - 1), rest |-> Slice(s, i, Len(s))]

\* urlparse: the scheme (lower-cased) before the colon at index colon, if
\* what is before it is a scheme, and the rest
SplitScheme(url, colon) ==
    IF /\ colon > 1
       /\ (IsUpperChar(url[1]) \/ IsLowerChar(url[1]))
       /\ \A i \in 1..(colon - 1) : url[i] \in SchemeChars
    THEN [head |-> Lower(Slice(url, 1, colon - 1)), rest |-> Slice(url, colon + 1, Len(url))]
    ELSE [head |-> <<>>, rest |-> url]

\* urlparse: the netloc after a leading //, and the rest
SplitNetloc(rest, afterNet) ==
    IF StartsWith(rest, <<"/", "/">>)
    THEN CutAt(afterNet, FirstIn(afterNet, {"/", "?", "#"}))
    ELSE [head |-> <<>>, rest |-> rest]

ParseResult(s, n, p) ==
    [scheme |-> s.head, netloc |-> n.head, path |-> p.head, tail |-> p.rest]

ParseAfterNetloc(s, n) == ParseResult(s, n, CutAt(n.rest, FirstIn(n.rest, {"?", "#"})))

ParseAfterScheme(s) ==
    ParseAfterNetloc(s, SplitNetloc(s.rest, Slice(s.rest, 3, Len(s.rest))))

\* urlparse(url): scheme (lower-cased), netloc, path, and the ?query#fragment
\* remainder kept verbatim
urlparse(url) == ParseAfterScheme(SplitScheme(url, FirstIn(url, {":"})))

\* urlunparse(parsed)
urlunparse(parsed) ==
    LET body == IF parsed.netloc # <<>>
                THEN <<"/", "/">> \o parsed.netloc \o parsed.path
                ELSE parsed.path
    IN  (IF parsed.scheme # <<>> THEN parsed.scheme \o <<":">> ELSE <<>>)
        \o body \o parsed.tail

DefaultScheme == <<"h", "t", "t", "p", "s">>

\* ensure_url_has_scheme, given the parsed URL
WithDefaultScheme(url, parsed) ==
    IF parsed.netloc = <<>> THEN url
    ELSE urlunparse(IF parsed.scheme = <<>>
                    THEN [parsed EXCEPT !.scheme = DefaultScheme]
                    ELSE parsed)

\* ensure_url_has_scheme(url, default_scheme="https")
ensure_url_has_scheme(url) ==
    IF url = <<>> THEN url ELSE WithDefaultScheme(url, urlparse(url))

\* is_same_domain
is_same_domain(candidate_url, root_url) ==
    IF candidate_url = <<>> \/ root_url = <<>> THEN FALSE
    ELSE urlparse(candidate_url).netloc = urlparse(root_url).netloc

\* the directory part of a base path, for a relative reference
BaseDirectory(b, slash) ==
    Slice(b.path, 1, slash) \o (IF slash = 0 /\ b.netloc # <<>> THEN <<"/">> ELSE <<>>)

\* urljoin on the parsed reference u and the parsed base b
JoinParsed(url, u, b) ==
    IF u.scheme # <<>> /\ u.scheme # b.scheme THEN url
    ELSE IF u.netloc # <<>>
         THEN urlunparse([u EXCEPT !.scheme = b.scheme])
    ELSE IF StartsWith(u.path, <<"/">>)
         THEN urlunparse([u EXCEPT !.scheme = b.scheme, !.netloc = b.netloc])
    ELSE IF u.path = <<>>
         THEN urlunparse([b EXCEPT !.tail = IF u.tail = <<>> THEN b.tail ELSE u.tail])
    ELSE urlunparse([u EXCEPT !.scheme = b.scheme, !.netloc = b.netloc,
                              !.path = BaseDirectory(b, LastIn(b.path, {"/"}))
                                       \o u.path])

\* make_absolute_url: urljoin(base_url, url) for a url that is absolute,
\* scheme-relative (//host/..), host-relative (/path) or relative to the
\* directory of the base path; dot segments are not resolved
make_absolute_url(url, base_url) ==
    IF url = <<>> THEN <<>> ELSE JoinParsed(url, urlparse(url), urlparse(base_url))

\* the last component of a path, and the index of its last dot
LastComponent(trimmed) == Slice(trimmed, LastIn(trimmed, {"/"}) + 1, Len(trimmed))

StemOf(name, dot) ==
    IF dot <= 1 \/ dot = Len(name) THEN name ELSE Slice(name, 1, dot - 1)

SuffixOf(name, dot) ==
    IF dot <= 1 \/ dot = Len(name) THEN <<>> ELSE Slice(name, dot, Len(name))

NameStem(name) == StemOf(name, LastIn(name, {"."}))

NameSuffix(name) == SuffixOf(name, LastIn(name, {"."}))

\* pathlib.Path(url).stem: the last component without its last suffix
PathStem(url) == NameStem(LastComponent(RStrip(url, {"/"})))

\* pathlib.Path(url).suffix
PathSuffix(url) == NameSuffix(LastComponent(RStrip(url, {"/"})))
(***************************************************************************)
(* policy_schema.py                                                        *)
(***************************************************************************)
\* PolicySectionDefinition(name, aliases)
Def(name, aliases) == [name |-> name, aliases |-> aliases]

\* POLICY_SCHEMAS: category -> PolicySchema
POLICY_SCHEMAS ==
    [c \in {"health", "motor", "life_term", "life_savings"} |->
        IF c = "health" THEN
          [category |-> "health", version |-> "1.0", sections |-> <<
            Def(<<"K","e","y"," ","F","e","a","t","u","r","e","s">>, <<<<"k","e","y"," ","f","e","a","t","u","r","e","s">>, <<"k","e","y"," ","h","i","g","h","l","i","g","h","t","s">>>>),
            Def(<<"E","l","i","g","i","b","i","l","i","t","y">>, <<<<"e","l","i","g","i","b","i","l","i","t","y">>, <<"w","h","o"," ","c","a","n"," ","b","u","y">>>>),
            Def(<<"C","o","v","e","r","a","g","e">>, <<<<"c","o","v","e","r","a","g","e">>, <<"b","e","n","e","f","i","t","s"," ","c","o","v","e","r","e","d">>, <<"i","n","c","l","u","s","i","o","n","s">>, <<"s","u","m"," ","i","n","s","u","r","e","d">>>>),
            Def(<<"E","x","c","l","u","s","i","o","n","s">>, <<<<"e","x","c","l","u","s","i","o","n","s">>, <<"w","h","a","t"," ","i","s"," ","n","o","t"," ","c","o","v","e","r","e","d">>>>),
            Def(<<"W","a","i","t","i","n","g"," ","P","e","r","i","o","d","s">>, <<<<"w","a","i","t","i","n","g"," ","p","e","r","i","o","d","s">>, <<"w","a","i","t","i","n","g"," ","p","e","r","i","o","d">>>>),
            Def(<<"P","r","e","m","i","u","m"," ","I","l","l","u","s","t","r","a","t","i","o","n">>, <<<<"p","r","e","m","i","u","m">>, <<"p","r","e","m","i","u","m"," ","c","h","a","r","t">>>>),
            Def(<<"R","e","n","e","w","a","l">>, <<<<"r","e","n","e","w","a","l">>>>),
            Def(<<"C","l","a","i","m","s">>, <<<<"c","l","a","i","m"," ","p","r","o","c","e","s","s">>, <<"c","l","a","i","m","s">>>>) >>]
        ELSE IF c = "motor" THEN
          [category |-> "motor", version |-> "1.0", sections |-> <<
            Def(<<"K","e","y"," ","F","e","a","t","u","r","e","s">>, <<<<"k","e","y"," ","f","e","a","t","u","r","e","s">>, <<"h","i","g","h","l","i","g","h","t","s">>>>),
            Def(<<"E","l","i","g","i","b","i","l","i","t","y">>, <<<<"e","l","i","g","i","b","i","l","i","t","y">>, <<"w","h","o"," ","c","a","n"," ","b","u","y">>>>),
            Def(<<"C","o","v","e","r","a","g","e">>, <<<<"c","o","v","e","r","a","g","e">>, <<"b","e","n","e","f","i","t","s">>, <<"o","w","n"," ","d","a","m","a","g","e"," ","c","o","v","e","r">>, <<"l","i","a","b","i","l","i","t","y"," ","c","o","v","e","r">>>>),
            Def(<<"A","d","d","-","o","n","s">>, <<<<"a","d","d","-","o","n","s">>, <<"o","p","t","i","o","n","a","l"," ","c","o","v","e","r","s">>>>),
            Def(<<"E","x","c","l","u","s","i","o","n","s">>, <<<<"e","x","c","l","u","s","i","o","n","s">>>>),
            Def(<<"C","l","a","i","m","s">>, <<<<"c","l","a","i","m","s">>, <<"c","l","a","i","m"," ","p","r","o","c","e","s","s">>>>),
            Def(<<"P","r","e","m","i","u","m"," ","I","l","l","u","s","t","r","a","t","i","o","n">>, <<<<"p","r","e","m","i","u","m">>>>) >>]
        ELSE IF c = "life_term" THEN
          [category |-> "life_term", version |-> "1.0", sections |-> <<
            Def(<<"K","e","y"," ","F","e","a","t","u","r","e","s">>, <<<<"k","e","y"," ","f","e","a","t","u","r","e","s">>, <<"h","i","g","h","l","i","g","h","t","s">>>>),
            Def(<<"E","l","i","g","i","b","i","l","i","t","y">>, <<<<"e","l","i","g","i","b","i","l","i","t","y">>, <<"e","n","t","r","y"," ","a","g","e">>>>),
            Def(<<"P","l","a","n"," ","O","p","t","i","o","n","s">>, <<<<"p","l","a","n"," ","o","p","t","i","o","n","s">>, <<"p","l","a","n"," ","v","a","r","i","a","n","t","s">>, <<"c","o","v","e","r","a","g","e"," ","o","p","t","i","o","n","s">>>>),
            Def(<<"B","e","n","e","f","i","t","s">>, <<<<"b","e","n","e","f","i","t","s">>, <<"d","e","a","t","h"," ","b","e","n","e","f","i","t">>, <<"m","a","t","u","r","i","t","y"," ","b","e","n","e","f","i","t">>, <<"s","u","r","v","i","v","a","l"," ","b","e","n","e","f","i","t">>>>),
            Def(<<"E","x","c","l","u","s","i","o","n","s">>, <<<<"e","x","c","l","u","s","i","o","n","s">>, <<"s","u","i","c","i","d","e"," ","c","l","a","u","s","e">>>>),
            Def(<<"P","r","e","m","i","u","m"," ","P","a","y","m","e","n","t">>, <<<<"p","r","e","m","i","u","m"," ","p","a","y","m","e","n","t">>, <<"p","r","e","m","i","u","m">>>>),
            Def(<<"P","o","l","i","c","y"," ","T","e","r","m">>, <<<<"p","o","l","i","c","y"," ","t","e","r","m">>, <<"t","e","r","m"," ","o","p","t","i","o","n","s">>>>),
            Def(<<"C","l","a","i","m","s">>, <<<<"c","l","a","i","m","s">>, <<"c","l","a","i","m"," ","p","r","o","c","e","s","s">>>>) >>]
        ELSE \* life_savings
          [category |-> "life_savings", version |-> "1.0", sections |-> <<
            Def(<<"K","e","y"," ","F","e","a","t","u","r","e","s">>, <<<<"k","e","y"," ","f","e","a","t","u","r","e","s">>, <<"h","i","g","h","l","i","g","h","t","s">>>>),
            Def(<<"E","l","i","g","i","b","i","l","i","t","y">>, <<<<"e","l","i","g","i","b","i","l","i","t","y">>, <<"e","n","t","r","y"," ","a","g","e">>>>),
            Def(<<"P","l","a","n"," ","O","p","t","i","o","n","s">>, <<<<"p","l","a","n"," ","o","p","t","i","o","n","s">>, <<"p","o","l","i","c","y"," ","o","p","t","i","o","n","s">>, <<"p","o","l","i","c","y"," ","v","a","r","i","a","n","t","s">>>>),
            Def(<<"B","e","n","e","f","i","t","s">>, <<<<"b","e","n","e","f","i","t","s">>, <<"m","a","t","u","r","i","t","y"," ","b","e","n","e","f","i","t">>, <<"s","u","r","v","i","v","a","l"," ","b","e","n","e","f","i","t">>, <<"d","e","a","t","h"," ","b","e","n","e","f","i","t">>>>),
            Def(<<"B","o","n","u","s">>, <<<<"b","o","n","u","s">>, <<"p","a","r","t","i","c","i","p","a","t","i","o","n"," ","i","n"," ","p","r","o","f","i","t","s">>>>),
            Def(<<"P","r","e","m","i","u","m"," ","P","a","y","m","e","n","t">>, <<<<"p","r","e","m","i","u","m"," ","p","a","y","m","e","n","t">>>>),
            Def(<<"S","u","r","r","e","n","d","e","r"," ","V","a","l","u","e">>, <<<<"s","u","r","r","e","n","d","e","r"," ","v","a","l","u","e">>, <<"l","o","a","n">>>>),
            Def(<<"C","l","a","i","m","s">>, <<<<"c","l","a","i","m","s">>>>) >>]
    ]

(***************************************************************************)
(* document_processing.py: PolicyNormalizer                                *)
(***************************************************************************)
\* str.splitlines() for the line separator "\n"
RECURSIVE SplitLines(_)
SplitLines(text) ==
    IF text = <<>> THEN <<>>
    ELSE LET nl == FirstIn(text, {"\n"})
         IN  IF nl = 0 THEN <<text>>
             ELSE <<Slice(text, 1, nl - 1)>> \o SplitLines(Slice(text, nl + 1, Len(text)))

\* "\n".join(lines)
RECURSIVE JoinLines(_)
JoinLines(lines) ==
    IF lines = <<>> THEN <<>>
    ELSE IF Len(lines) = 1 THEN lines[1]
    ELSE lines[1] \o <<"\n">> \o JoinLines(Tail(lines))

\* len(s.split()): the number of maximal runs of non-whitespace characters
WordCount(s) ==
    Cardinality({i \in 1..Len(s) :
                    s[i] \notin SpaceChars /\ (i = 1 \/ s[i - 1] \in SpaceChars)})

\* the number of characters of s that are in a set
CountChars(s, set) == Cardinality({i \in 1..Len(s) : s[i] \in set})

\* SECTION_HEADING_RE = ^[A-Z][A-Za-z0-9\s/&,-]{3,}$
SECTION_HEADING_RE(s) ==
    /\ Len(s) >= 4
    /\ IsUpperChar(s[1])
    /\ \A i \in 2..Len(s) :
          \/ IsUpperChar(s[i]) \/ IsLowerChar(s[i]) \/ s[i] \in DigitChars
          \/ s[i] \in SpaceChars \/ s[i] \in {"/", "&", ",", "-"}

\* line.rstrip(":").strip()
HeadingTitle(line) == Strip(RStrip(line, {":"}), SpaceChars)

\* PolicyNormalizer._looks_like_heading
_looks_like_heading(line) ==
    LET stripped  == HeadingTitle(Strip(line, SpaceChars))
        uppercase == CountChars(stripped, UpperSet)
        lowercase == CountChars(stripped, LowerSet)
    IN  IF stripped = <<>> \/ Len(stripped) > 120 THEN FALSE
        ELSE IF WordCount(stripped) > 12 THEN FALSE
        ELSE IF uppercase > 0 /\ lowercase = 0 THEN TRUE
        ELSE IF uppercase >= lowercase THEN TRUE
        ELSE SECTION_HEADING_RE(stripped)

\* the loop of _split_sections over the cleaned lines; a section is
\* <<title, body>>
RECURSIVE SplitLoop(_, _, _, _)
SplitLoop(lines, sections, current_title, buffer) ==
    IF lines = <<>>
    THEN IF buffer # <<>>
         THEN Append(sections, <<current_title, Strip(JoinLines(buffer), SpaceChars)>>)
         ELSE sections
    ELSE LET line == Head(lines)
         IN  IF line = <<>> THEN SplitLoop(Tail(lines), sections, current_title, buffer)
             ELSE IF _looks_like_heading(line)
                  THEN SplitLoop(Tail(lines),
                                 IF buffer # <<>>
                                 THEN Append(sections,
                                        <<current_title, Strip(JoinLines(buffer), SpaceChars)>>)
                                 ELSE sections,
                                 HeadingTitle(line), <<>>)
             ELSE SplitLoop(Tail(lines), sections, current_title, Append(buffer, line))

\* a faulty variant of _split_sections that segments the lines as they are
\* in the text, without clean_text
_split_sections_RawLines(text) ==
    SplitLoop(SplitLines(text), <<>>, <<"O","v","e","r","v","i","e","w">>, <<>>)

\* PolicyNormalizer._split_sections
_split_sections(text) ==
    LET raw   == SplitLines(text)
        lines == [i \in 1..Len(raw) |-> clean_text(raw[i])]
    IN  SplitLoop(lines, <<>>, <<"O","v","e","r","v","i","e","w">>, <<>>)

\* PolicyNormalizer._match_section: <<content, confidence>>, the confidence
\* in tenths (10 = 1.0, 8 = 0.8, 0 = 0.0)
RECURSIVE _match_section(_, _)
_match_section(definition, sections) ==
    IF sections = <<>> THEN << <<>>, 0 >>
    ELSE LET title   == Lower(Head(sections)[1])
             content == Head(sections)[2]
         IN  IF title = Lower(definition.name) THEN <<content, 10>>
             ELSE IF \E i \in 1..Len(definition.aliases) :
                        Contains(title, Lower(definition.aliases[i]))
                  THEN <<content, 8>>
             ELSE _match_section(definition, Tail(sections))

\* a faulty variant of normalize that leaves out the sections it did not find
normalize_SkipsUnmatched(product, document) ==
    IF document.extracted_text = <<>> THEN <<>>
    ELSE IF product.category \notin DOMAIN POLICY_SCHEMAS THEN <<>>
    ELSE LET schema   == POLICY_SCHEMAS[product.category]
             sections == _split_sections(document.extracted_text)
             found    == SelectSeq(schema.sections,
                                   LAMBDA d : _match_section(d, sections)[2] # 0)
         IN  [i \in 1..Len(found) |->
                [product_id         |-> product.product_id,
                 category           |-> product.category,
                 schema_version     |-> schema.version,
                 section_name       |-> found[i].name,
                 content            |-> _match_section(found[i], sections)[1],
                 confidence         |-> _match_section(found[i], sections)[2],
                 source_document_id |-> document.document_id]]

\* a faulty variant of normalize that falls back to the schema of "health"
\* for a category without schema
normalize_DefaultSchema(product, document) ==
    IF document.extracted_text = <<>> THEN <<>>
    ELSE LET schema   == IF product.category \in DOMAIN POLICY_SCHEMAS
                         THEN POLICY_SCHEMAS[product.category]
                         ELSE POLICY_SCHEMAS["health"]
             sections == _split_sections(document.extracted_text)
         IN  [i \in 1..Len(schema.sections) |->
                LET m == _match_section(schema.sections[i], sections)
                IN  [product_id         |-> product.product_id,
                     category           |-> product.category,
                     schema_version     |-> schema.version,
                     section_name       |-> schema.sections[i].name,
                     content            |-> m[1],
                     confidence         |-> m[2],
                     source_document_id |-> document.document_id]]

\* PolicyNormalizer.normalize(product, document): the PolicySectionExtraction
\* rows, one per section of the schema of the product's category
normalize(product, document) ==
    IF document.extracted_text = <<>> THEN <<>>
    ELSE IF product.category \notin DOMAIN POLICY_SCHEMAS THEN <<>>
    ELSE LET schema   == POLICY_SCHEMAS[product.category]
             sections == _split_sections(document.extracted_text)
         IN  [i \in 1..Len(schema.sections) |->
                LET m == _match_section(schema.sections[i], sections)
                IN  [product_id         |-> product.product_id,
                     category           |-> product.category,
                     schema_version     |-> schema.version,
                     section_name       |-> schema.sections[i].name,
                     content            |-> m[1],
                     confidence         |-> m[2],
                     source_document_id |-> document.document_id]]

(***************************************************************************)
(* models.py                                                               *)
(***************************************************************************)
\* Optional[...] = None, for fields whose values are strings
None == <<"None">>

\* dict.update on dicts modelled as functions
DictUpdate(d, e) ==
    [k \in DOMAIN d \cup DOMAIN e |-> IF k \in DOMAIN e THEN e[k] ELSE d[k]]

\* position of the entry of an insertion-ordered dict (a sequence of
\* records) whose key field has the given value, or 0: dict.get
IndexOfProduct(products, product_id) ==
    IF \E i \in 1..Len(products) : products[i].product_id = product_id
    THEN CHOOSE i \in 1..Len(products) :
            /\ products[i].product_id = product_id
            /\ \A j \in 1..(i - 1) : products[j].product_id # product_id
    ELSE 0

IndexOfDocument(documents, document_id) ==
    IF \E i \in 1..Len(documents) : documents[i].document_id = document_id
    THEN CHOOSE i \in 1..Len(documents) :
            /\ documents[i].document_id = document_id
            /\ \A j \in 1..(i - 1) : documents[j].document_id # document_id
    ELSE 0

\* An entry of Product.documents refers to a ProductDocument object.  The
\* object is either the one stored in the insurer-wide documents dict under
\* its document_id (own = <<>>: the entry shows whatever that object holds)
\* or an object of its own that nothing else refers to (own = <<document>>).
DocRef(document, stored) ==
    [document_id |-> document.document_id,
     own         |-> IF stored THEN <<>> ELSE <<document>>]

\* Product.merge_documents([document])
merge_documents(product, document, stored) ==
    IF \E i \in 1..Len(product.documents) :
          product.documents[i].document_id = document.document_id
    THEN product
    ELSE [product EXCEPT !.documents = Append(@, DocRef(document, stored))]

\* Product.extend_policy_sections
extend_policy_sections(product, sections) ==
    [product EXCEPT !.policy_sections = @ \o sections]

(***************************************************************************)
(* product_crawler.py: keyword tables                                      *)
(***************************************************************************)
SKIP_EXTENSIONS ==
    {<<".","p","d","f">>, <<".","d","o","c">>, <<".","d","o","c","x">>, <<".","x","l","s">>, <<".","x","l","s","x">>, <<".","z","i","p">>, <<".","p","n","g">>, <<".","j","p","g">>,
     <<".","j","p","e","g">>, <<".","g","i","f">>, <<".","s","v","g">>, <<".","m","p","4">>, <<".","m","p","3">>, <<".","a","v","i">>, <<".","m","o","v">>}

PRODUCT_KEYWORDS == <<<<"p","l","a","n">>, <<"p","o","l","i","c","y">>, <<"i","n","s","u","r","a","n","c","e">>, <<"c","o","v","e","r">>, <<"p","r","o","d","u","c","t">>>>

\* DOCUMENT_KEYWORDS, in the dict's order
DOCUMENT_KEYWORDS ==
    << [type |-> "policy_wording",
        keywords |-> <<<<"p","o","l","i","c","y"," ","w","o","r","d","i","n","g">>, <<"p","o","l","i","c","y"," ","w","o","r","d","i","n","g","s">>,
                       <<"p","o","l","i","c","y"," ","d","o","c","u","m","e","n","t">>, <<"p","o","l","i","c","y"," ","s","c","h","e","d","u","l","e">>>>],
       [type |-> "brochure", keywords |-> <<<<"b","r","o","c","h","u","r","e">>, <<"l","e","a","f","l","e","t">>>>],
       [type |-> "prospectus", keywords |-> <<<<"p","r","o","s","p","e","c","t","u","s">>, <<"s","a","l","e","s"," ","b","r","o","c","h","u","r","e">>>>] >>

\* CATEGORY_KEYWORDS, in the dict's order
CATEGORY_KEYWORDS ==
    << [category |-> "health",
        keywords |-> <<<<"h","e","a","l","t","h">>, <<"m","e","d","i">>, <<"m","e","d","i","c","l","a","i","m">>, <<"h","o","s","p","i","t","a","l">>>>],
       [category |-> "motor",
        keywords |-> <<<<"m","o","t","o","r">>, <<"c","a","r">>, <<"b","i","k","e">>, <<"v","e","h","i","c","l","e">>, <<"a","u","t","o">>>>],
       [category |-> "life_term",
        keywords |-> <<<<"t","e","r","m">>, <<"t","e","r","m"," ","p","l","a","n">>, <<"l","i","f","e"," ","c","o","v","e","r">>>>],
       [category |-> "life_savings",
        keywords |-> <<<<"t","r","a","d","i","t","i","o","n","a","l">>, <<"s","a","v","i","n","g","s">>, <<"e","n","d","o","w","m","e","n","t">>,
                       <<"m","o","n","e","y"," ","b","a","c","k">>, <<"i","n","v","e","s","t","m","e","n","t">>>>] >>

REQUIRED_DOCUMENT_TYPES == {"brochure", "policy_wording", "prospectus"}

DOWNLOAD_URL_HINTS ==
    <<<<"d","o","w","n","l","o","a","d">>, <<"d","o","w","n","l","o","a","d","s">>, <<"p","r","o","d","u","c","t","-","b","r","o","c","h","u","r","e">>, <<"p","r","o","d","u","c","t","b","r","o","c","h","u","r","e">>,
      <<"p","o","l","i","c","y","-","w","o","r","d","i","n","g">>, <<"p","o","l","i","c","y","_","w","o","r","d","i","n","g">>, <<"p","o","l","i","c","y","w","o","r","d","i","n","g">>, <<"p","o","l","i","c","y","-","d","o","c","u","m","e","n","t">>>>

DOWNLOAD_TEXT_HINTS ==
    <<<<"d","o","w","n","l","o","a","d">>, <<"d","o","w","n","l","o","a","d","s">>, <<"b","r","o","c","h","u","r","e">>, <<"p","r","o","d","u","c","t"," ","b","r","o","c","h","u","r","e">>,
      <<"p","o","l","i","c","y"," ","w","o","r","d","i","n","g">>, <<"p","o","l","i","c","y"," ","w","o","r","d","i","n","g","s">>, <<"p","o","l","i","c","y"," ","d","o","c","u","m","e","n","t">>, <<"p","o","l","i","c","y"," ","s","c","h","e","d","u","l","e">>>>

\* the text of a document type name, as it enters the document_id
TypeText(document_type) ==
    IF document_type = "policy_wording" THEN <<"p","o","l","i","c","y","_","w","o","r","d","i","n","g">>
    ELSE IF document_type = "brochure" THEN <<"b","r","o","c","h","u","r","e">>
    ELSE IF document_type = "prospectus" THEN <<"p","r","o","s","p","e","c","t","u","s">>
    ELSE <<"o","t","h","e","r">>

\* any(keyword in text for keyword in keywords)
AnyKeywordIn(keywords, text) ==
    \E i \in 1..Len(keywords) : Contains(text, keywords[i])

\* str.replace(old, new) for one-character old
ReplaceChar(s, old, new) == [i \in 1..Len(s) |-> IF s[i] = old THEN new ELSE s[i]]

(***************************************************************************)
(* product_crawler.py: what a fetched page yields                          *)
(* A page is [headings, anchors, text]:                                    *)
(*   heading = [name, title, href, description]                            *)
(*   anchor  = [href, text, attrs, parents], attrs a dict of attribute     *)
(*             values and parents the dicts of the ancestors, nearest first*)
(***************************************************************************)
\* the strings of a page in document order: its free text, each heading
\* with the description that follows it, then the texts of its links
HeadingStrings(headings) ==
    [i \in 1..(2 * Len(headings)) |->
        IF i % 2 = 1 THEN headings[(i + 1) \div 2].title
        ELSE headings[i \div 2].description]

AnchorStrings(anchors) == [i \in 1..Len(anchors) |-> anchors[i].text]

RECURSIVE JoinStripped(_)
JoinStripped(strings) ==
    IF strings = <<>> THEN <<>>
    ELSE LET first == Strip(Head(strings), SpaceChars)
             rest  == JoinStripped(Tail(strings))
         IN  IF first = <<>> THEN rest
             ELSE IF rest = <<>> THEN first
             ELSE first \o <<" ">> \o rest

\* clean_text(soup.get_text(" ", strip=True))
get_text(page) ==
    clean_text(JoinStripped(<<page.text>> \o HeadingStrings(page.headings)
                            \o AnchorStrings(page.anchors)))

\* _is_potential_product_name
_is_potential_product_name(value) ==
    AnyKeywordIn(PRODUCT_KEYWORDS, Lower(value)) /\ Len(value) > 5

\* _extract_tags
_extract_tags(title) ==
    LET hit == SelectSeq(CATEGORY_KEYWORDS,
                         LAMBDA e : AnyKeywordIn(e.keywords, Lower(title)))
    IN  [i \in 1..Len(hit) |-> hit[i].category]

\* _classify_category
_classify_category(title, page_text) ==
    LET combined == Lower(title \o <<" ">> \o page_text)
        hit == SelectSeq(CATEGORY_KEYWORDS,
                         LAMBDA e : AnyKeywordIn(e.keywords, combined))
    IN  IF hit = <<>> THEN "other" ELSE hit[1].category

\* _resolve_heading_url
_resolve_heading_url(heading, page_url) ==
    LET href == Strip(heading.href, SpaceChars)
    IN  IF href # <<>> THEN make_absolute_url(href, page_url) ELSE page_url

\* the Product built for one heading (the body of the loop of _extract_products)
NewProduct(insurer, page_url, heading, page_text) ==
    LET title == clean_text(heading.title)
    IN  [product_id          |-> slugify(insurer.insurer_id \o <<"-">> \o title),
         insurer_id          |-> insurer.insurer_id,
         name                |-> title,
         category            |-> _classify_category(title, page_text),
         product_url         |-> _resolve_heading_url(heading, page_url),
         description         |-> heading.description,
         discovered_from_url |-> page_url,
         tags                |-> _extract_tags(title),
         metadata            |-> [heading_level |-> heading.name, page_url |-> page_url],
         documents           |-> <<>>,
         policy_sections     |-> <<>>]

\* _extract_products
_extract_products(insurer, page_url, page) ==
    LET kept == SelectSeq(page.headings,
                          LAMBDA h : _is_potential_product_name(clean_text(h.title)))
    IN  [i \in 1..Len(kept) |-> NewProduct(insurer, page_url, kept[i], get_text(page))]

\* a faulty variant of _infer_document_type that consults the URL first
_infer_document_type_UrlFirst(anchor_text, href) ==
    LET text == Lower(anchor_text)
        byText == SelectSeq(DOCUMENT_KEYWORDS, LAMBDA e : AnyKeywordIn(e.keywords, text))
        href_lower == Lower(href)
        normalized_url == ReplaceChar(ReplaceChar(href_lower, "-", " "), "_", " ")
        byUrl == SelectSeq(DOCUMENT_KEYWORDS,
                    LAMBDA e : \E i \in 1..Len(e.keywords) :
                        \/ Contains(normalized_url, Lower(e.keywords[i]))
                        \/ Contains(href_lower,
                                    KeepChars(Lower(e.keywords[i]),
                                              Range(Lower(e.keywords[i])) \ {" "})))
    IN  IF href # <<>> /\ byUrl # <<>> THEN byUrl[1].type
        ELSE IF byText # <<>> THEN byText[1].type
        ELSE "other"

\* _infer_document_type
_infer_document_type(anchor_text, href) ==
    LET text == Lower(anchor_text)
        byText == SelectSeq(DOCUMENT_KEYWORDS, LAMBDA e : AnyKeywordIn(e.keywords, text))
        href_lower == Lower(href)
        normalized_url == ReplaceChar(ReplaceChar(href_lower, "-", " "), "_", " ")
        byUrl == SelectSeq(DOCUMENT_KEYWORDS,
                    LAMBDA e : \E i \in 1..Len(e.keywords) :
                        \/ Contains(normalized_url, Lower(e.keywords[i]))
                        \/ Contains(href_lower,
                                    KeepChars(Lower(e.keywords[i]),
                                              Range(Lower(e.keywords[i])) \ {" "})))
    IN  IF byText # <<>> THEN byText[1].type
        ELSE IF href # <<>> /\ byUrl # <<>> THEN byUrl[1].type
        ELSE "other"

\* _looks_like_download_link
_looks_like_download_link(anchor, anchor_text, absolute_url) ==
    \/ AnyKeywordIn(DOWNLOAD_URL_HINTS, Lower(absolute_url))
    \/ AnyKeywordIn(DOWNLOAD_TEXT_HINTS, Lower(anchor_text))
    \/ \E a \in {"title", "aria-label", "data-title", "data-label", "class", "id"} :
          /\ a \in DOMAIN anchor.attrs
          /\ AnyKeywordIn(DOWNLOAD_TEXT_HINTS, Lower(anchor.attrs[a]))
    \/ \E d \in 1..Len(anchor.parents) :
          /\ d <= 3
          /\ \E a \in {"class", "id", "data-section", "data-testid"} :
                /\ a \in DOMAIN anchor.parents[d]
                /\ AnyKeywordIn(DOWNLOAD_TEXT_HINTS, Lower(anchor.parents[d][a]))

\* _iter_document_links: <<anchor, absolute, anchor_text>> per document link
_iter_document_links(page, page_url) ==
    LET links == [i \in 1..Len(page.anchors) |->
                    <<page.anchors[i],
                      make_absolute_url(Strip(page.anchors[i].href, SpaceChars), page_url),
                      clean_text(page.anchors[i].text)>>]
    IN  SelectSeq(links,
                  LAMBDA l : /\ Strip(l[1].href, SpaceChars) # <<>>
                             /\ l[2] # <<>>
                             /\ \E ext \in {<<".","p","d","f">>, <<".","d","o","c">>, <<".","d","o","c","x">>} :
                                   EndsWith(Lower(l[2]), ext))

\* the ProductDocument built for one document link
NewDocument(insurer, page_url, absolute, anchor_text, document_type) ==
    [document_id    |-> slugify(insurer.insurer_id \o <<"-">> \o PathStem(absolute)
                                \o <<"-">> \o TypeText(document_type)),
     insurer_id     |-> insurer.insurer_id,
     document_type  |-> document_type,
     source_url     |-> absolute,
     product_id     |-> None,
     local_path     |-> None,
     content_hash   |-> None,
     extracted_text |-> <<>>,
     metadata       |-> [anchor_text      |-> anchor_text,
                         page_url         |-> page_url,
                         discovery_method |-> <<"d","o","w","n","l","o","a","d","_","s","e","c","t","i","o","n">>]]

\* a faulty variant of _extract_documents that keeps the download links of
\* every inferred type
_extract_documents_AnyType(insurer, page_url, page) ==
    LET links == _iter_document_links(page, page_url)
        kept  == SelectSeq(links, LAMBDA l : _looks_like_download_link(l[1], l[3], l[2]))
    IN  [i \in 1..Len(kept) |->
            NewDocument(insurer, page_url, kept[i][2], kept[i][3],
                        _infer_document_type(kept[i][3], kept[i][2]))]

\* _extract_documents
_extract_documents(insurer, page_url, page) ==
    LET links == _iter_document_links(page, page_url)
        kept  == SelectSeq(links,
                    LAMBDA l : /\ _infer_document_type(l[3], l[2]) \in REQUIRED_DOCUMENT_TYPES
                               /\ _looks_like_download_link(l[1], l[3], l[2]))
    IN  [i \in 1..Len(kept) |->
            NewDocument(insurer, page_url, kept[i][2], kept[i][3],
                        _infer_document_type(kept[i][3], kept[i][2]))]

\* _extract_links
_extract_links(page, page_url, root_url) ==
    LET hrefs == [i \in 1..Len(page.anchors) |-> Strip(page.anchors[i].href, SpaceChars)]
        plain == SelectSeq(hrefs,
                    LAMBDA h : ~ \E p \in {<<"m","a","i","l","t","o",":">>, <<"t","e","l",":">>, <<"j","a","v","a","s","c","r","i","p","t",":">>} :
                                    StartsWith(h, p))
        absolute == [i \in 1..Len(plain) |-> make_absolute_url(plain[i], page_url)]
    IN  SelectSeq(absolute,
                  LAMBDA a : /\ ~ \E ext \in SKIP_EXTENSIONS :
                                    EndsWith(Lower(urlparse(a).path), ext)
                             /\ is_same_domain(a, root_url))

(***************************************************************************)
(* document_processing.py: DocumentProcessor                               *)
(* The answer of the document host is a record                             *)
(*   [error, content_length, size, content, write_ok, pdf_ok, pdf_text]    *)
(* error: the request raises or the status is not 2xx; content_length: the *)
(* Content-Length header (0 when absent); size: len(content); write_ok:    *)
(* the file can be written; pdf_ok, pdf_text: what extract_pdf_text does.  *)
(***************************************************************************)
max_document_size == 26214400

SUPPORTED_DOCUMENT_EXTENSIONS ==
    [e \in {<<".","p","d","f">>, <<".","d","o","c">>, <<".","d","o","c","x">>} |->
        IF e = <<".","p","d","f">> THEN <<"a","p","p","l","i","c","a","t","i","o","n","/","p","d","f">>
        ELSE IF e = <<".","d","o","c">> THEN <<"a","p","p","l","i","c","a","t","i","o","n","/","m","s","w","o","r","d">>
        ELSE <<"a","p","p","l","i","c","a","t","i","o","n","/","v","n","d",".","o","p","e","n","x","m","l","f","o","r","m","a","t","s","-","o","f","f","i","c","e","d","o","c","u","m","e","n","t",".","w","o","r","d","p","r","o","c","e","s","s","i","n","g","m","l",".","d","o","c","u","m","e","n","t">>]

\* DocumentProcessor._detect_extension
_detect_extension(url) ==
    LET ext == Lower(PathSuffix(url))
    IN  IF ext \in DOMAIN SUPPORTED_DOCUMENT_EXTENSIONS THEN ext
        ELSE IF Contains(url, <<".","p","d","f">>) THEN <<".","p","d","f">>
        ELSE IF ext # <<>> THEN ext
        ELSE <<".","d","a","t">>

\* DocumentProcessor._build_local_path, with base_dir = data/documents
_build_local_path(insurer_id, document_id, extension) ==
    LET sanitized == IF slugify(document_id) # <<>> THEN slugify(document_id) ELSE document_id
    IN  <<"d","a","t","a","/","d","o","c","u","m","e","n","t","s","/">> \o insurer_id \o <<"/">> \o sanitized \o extension

\* DocumentProcessor._download raises
DownloadRaises(resp) ==
    \/ resp.error
    \/ (resp.content_length # 0 /\ resp.content_length > max_document_size)
    \/ resp.size > max_document_size

\* compute_content_hash: SHA-256 taken as injective on the contents used
compute_content_hash(content) == <<"s","h","a","2","5","6",":">> \o content

\* DocumentProcessor._extract_text of a file that was just written
_extract_text(extension, resp) ==
    strip_hindi(IF extension = <<".","p","d","f">> /\ resp.pdf_ok THEN resp.pdf_text ELSE <<>>)

\* the last two assignments of process_document
WithExtensionMetadata(document, extension) ==
    [document EXCEPT !.metadata =
        DictUpdate(@, [extension    |-> extension,
                       content_type |-> IF extension \in DOMAIN SUPPORTED_DOCUMENT_EXTENSIONS
                                        THEN SUPPORTED_DOCUMENT_EXTENSIONS[extension]
                                        ELSE <<>>])]

\* DocumentProcessor.process_document
process_document(document, resp, download_documents) ==
    LET url        == ensure_url_has_scheme(document.source_url)
        extension  == _detect_extension(url)
        local_path == _build_local_path(document.insurer_id, document.document_id, extension)
    IN  IF url = <<>> THEN document
        ELSE IF ~download_documents
             THEN WithExtensionMetadata(
                      [document EXCEPT !.local_path = local_path, !.extracted_text = <<>>],
                      extension)
        ELSE IF DownloadRaises(resp) THEN WithExtensionMetadata(document, extension)
        ELSE IF resp.size = 0 THEN document
        ELSE IF ~resp.write_ok
             THEN WithExtensionMetadata(
                      [document EXCEPT !.content_hash = compute_content_hash(resp.content)],
                      extension)
        ELSE WithExtensionMetadata(
                 [document EXCEPT !.content_hash   = compute_content_hash(resp.content),
                                  !.local_path     = local_path,
                                  !.extracted_text = _extract_text(extension, resp)],
                 extension)

(***************************************************************************)
(* product_crawler.py: merging and association                             *)
(***************************************************************************)

\* a faulty variant of MergeProduct in which the later description wins
MergeProduct_LastDescription(products, product) ==
    LET i == IndexOfProduct(products, product.product_id)
    IN  IF i # 0
        THEN [products EXCEPT ![i] =
                [@ EXCEPT !.metadata    = DictUpdate(@, product.metadata),
                          !.tags        = iter_unique(@ \o product.tags),
                          !.description = IF product.description # <<>>
                                          THEN product.description ELSE @]]
        ELSE Append(products, product)

\* crawl_insurer, the body of "for product in page_products"
MergeProduct(products, product) ==
    LET i == IndexOfProduct(products, product.product_id)
    IN  IF i # 0
        THEN [products EXCEPT ![i] =
                [@ EXCEPT !.metadata    = DictUpdate(@, product.metadata),
                          !.tags        = iter_unique(@ \o product.tags),
                          !.description = IF @ # <<>> THEN @ ELSE product.description]]
        ELSE Append(products, product)

\* a faulty variant of MergeProducts that merges the candidates of known
\* products and never adds a product
RECURSIVE MergeProducts_KnownOnly(_, _)
MergeProducts_KnownOnly(products, page_products) ==
    IF page_products = <<>> THEN products
    ELSE MergeProducts_KnownOnly(
             IF IndexOfProduct(products, Head(page_products).product_id) # 0
             THEN MergeProduct(products, Head(page_products)) ELSE products,
             Tail(page_products))

\* crawl_insurer, "for product in page_products"
RECURSIVE MergeProducts(_, _)
MergeProducts(products, page_products) ==
    IF page_products = <<>> THEN products
    ELSE MergeProducts(MergeProduct(products, Head(page_products)), Tail(page_products))

\* The values of processed_products, in dict order.  Built from the page's
\* own Product objects, the dict keeps for each product_id the position of
\* its first object and the object that came last.  `live` tells whether
\* that object is the one the products dict holds: it is when the id was
\* new on this page and a single heading of the page produced it, and for
\* every object taken from all_products.
processed_products(page_products, known_before, all_products) ==
    IF page_products # <<>>
    THEN LET firsts == SelectSeq([i \in 1..Len(page_products) |-> i],
                          LAMBDA i : \A j \in 1..(i - 1) :
                              page_products[j].product_id # page_products[i].product_id)
         IN  [k \in 1..Len(firsts) |->
                LET pid  == page_products[firsts[k]].product_id
                    last == CHOOSE i \in 1..Len(page_products) :
                              /\ page_products[i].product_id = pid
                              /\ \A j \in (i + 1)..Len(page_products) :
                                    page_products[j].product_id # pid
                IN  [product_id |-> pid,
                     name       |-> page_products[last].name,
                     category   |-> page_products[last].category,
                     live       |-> IndexOfProduct(known_before, pid) = 0 /\ last = firsts[k]]]
    ELSE [i \in 1..Len(all_products) |->
            [product_id |-> all_products[i].product_id,
             name       |-> all_products[i].name,
             category   |-> all_products[i].category,
             live       |-> TRUE]]

\* a faulty variant of _match_document_to_product that takes the first
\* candidate when no name is in the anchor text
_match_document_to_product_FirstCandidate(document, product_list) ==
    IF product_list = <<>> THEN 0
    ELSE LET anchor_text == Lower(document.metadata.anchor_text)
             hits == {i \in 1..Len(product_list) :
                         Contains(anchor_text, Lower(product_list[i].name))}
         IN  IF hits # {} THEN CHOOSE i \in hits : \A j \in hits : i <= j ELSE 1

\* a faulty variant of _match_document_to_product without the fallback to the
\* only candidate
_match_document_to_product_NameOnly(document, product_list) ==
    IF product_list = <<>> THEN 0
    ELSE LET anchor_text == IF "anchor_text" \in DOMAIN document.metadata
                            THEN Lower(document.metadata.anchor_text) ELSE <<>>
             hits == {i \in 1..Len(product_list) :
                         Contains(anchor_text, Lower(product_list[i].name))}
         IN  IF anchor_text # <<>> /\ hits # {}
             THEN CHOOSE i \in hits : \A j \in hits : i <= j
             ELSE 0

\* _match_document_to_product: the position of the matched product in
\* product_list, 0 for None
_match_document_to_product(document, product_list) ==
    IF product_list = <<>> THEN 0
    ELSE LET anchor_text == IF "anchor_text" \in DOMAIN document.metadata
                            THEN Lower(document.metadata.anchor_text) ELSE <<>>
             hits == {i \in 1..Len(product_list) :
                         Contains(anchor_text, Lower(product_list[i].name))}
         IN  IF anchor_text # <<>> /\ hits # {}
             THEN CHOOSE i \in hits : \A j \in hits : i <= j
             ELSE IF Len(product_list) = 1 THEN 1
             ELSE 0

\* a faulty variant of MergeDocument that appends a document whose id is known
MergeDocument_Append(all_documents, processed) == Append(all_documents, processed)

\* _associate_documents, from "existing = all_documents.get(...)" on
MergeDocument(all_documents, processed) ==
    LET i == IndexOfDocument(all_documents, processed.document_id)
    IN  IF i # 0
        THEN [all_documents EXCEPT ![i] =
                [@ EXCEPT !.metadata       = DictUpdate(@, processed.metadata),
                          !.local_path     = IF @ # None THEN @ ELSE processed.local_path,
                          !.extracted_text = IF @ # <<>> THEN @ ELSE processed.extracted_text]]
        ELSE Append(all_documents, processed)

\* _associate_documents, the "if matched_product:" block for a matched
\* object that the products dict holds; rows is what normalize returned
AttachAt(all_products, i, processed, stored, rows) ==
    [all_products EXCEPT ![i] =
        extend_policy_sections(merge_documents(@, processed, stored), rows)]

AttachToProduct(all_products, candidate, processed, stored, rows) ==
    AttachAt(all_products, IndexOfProduct(all_products, candidate.product_id),
             processed, stored, rows)

\* _associate_documents, the rows of "sections = self.normalizer.normalize"
\* (none when the block is not entered)
SectionRows(candidate, processed) ==
    IF processed.document_type = "policy_wording" /\ processed.extracted_text # <<>>
    THEN normalize(candidate, processed)
    ELSE <<>>

\* what is recorded of one pass of the loop body, for the properties: the
\* processed document, the product_id it was associated with (None: with
\* none), the rows normalize returned, and whether the matched Product
\* object is the one the products dict holds
LogEntry(processed, matched, rows, live) ==
    [document |-> processed, matched |-> matched, sections |-> rows, live |-> live]

\* _associate_documents, the loop body for a document matched to a candidate
AssociateMatched(acc, candidate, processed, rows) ==
    [products  |-> IF candidate.live
                   THEN AttachToProduct(acc.products, candidate, processed,
                            IndexOfDocument(acc.documents, processed.document_id) = 0,
                            rows)
                   ELSE acc.products,
     documents |-> MergeDocument(acc.documents, processed),
     log       |-> Append(acc.log,
                          LogEntry(processed, candidate.product_id, rows, candidate.live))]

\* _associate_documents, the loop body from "if matched_product:" on
AssociateWith(acc, candidate, processed) ==
    AssociateMatched(acc, candidate, processed, SectionRows(candidate, processed))

\* _associate_documents, the loop body after process_document; m is the
\* position of the matched candidate, 0 for None
AssociateAt(acc, candidates, processed, m) ==
    IF m # 0
    THEN AssociateWith(acc, candidates[m],
                       [processed EXCEPT !.product_id = candidates[m].product_id])
    ELSE [acc EXCEPT !.documents = MergeDocument(@, processed),
                     !.log       = Append(@, LogEntry(processed, None, <<>>, FALSE))]

AssociateOne(acc, candidates, processed) ==
    AssociateAt(acc, candidates, processed,
                _match_document_to_product(processed, candidates))

\* _associate_documents, "for document in page_documents".  acc holds the
\* two dicts and the record of the passes made so far.
RECURSIVE AssociateLoop(_, _, _, _, _)
AssociateLoop(page_documents, resps, candidates, download_documents, acc) ==
    IF page_documents = <<>> THEN acc
    ELSE AssociateLoop(Tail(page_documents), Tail(resps), candidates, download_documents,
            AssociateOne(acc, candidates,
                         process_document(Head(page_documents), Head(resps),
                                          download_documents)))

\* _associate_documents
_associate_documents(page_products, page_documents, resps, known_before, all_products, all_documents, download_documents) ==
    AssociateLoop(page_documents, resps,
                  processed_products(page_products, known_before, all_products),
                  download_documents,
                  [products |-> all_products, documents |-> all_documents,
                   log |-> <<>>])
(***************************************************************************)
(* Bounds and the inputs the crawl is run on                               *)
(***************************************************************************)
\* number of pages of the insurer's site besides its home page
NumSitePages == 1
\* most navigation links on one page
MaxLinks == 2
\* largest max_pages_per_insurer tried
MaxPagesBound == 3
\* largest max_depth tried
MaxDepthBound == 1

Digits == <<"1", "2", "3", "4", "5", "6", "7", "8", "9">>

\* the path of the i-th page of the site, the home page being page 0
PagePath(i) == IF i = 0 THEN <<"/">> ELSE <<"/","p">> \o <<Digits[i]>>

Heading(title, description) ==
    [name |-> "h2", title |-> title, href |-> <<>>, description |-> description]

Anchor(href, text) == [href |-> href, text |-> text, attrs |-> <<>>, parents |-> <<>>]

\* navigation links to pages of the site
LinkAnchor(i) == Anchor(PagePath(i), <<"m","o","r","e">>)

RECURSIVE SeqsUpTo(_, _)
SeqsUpTo(S, n) ==
    IF n = 0 THEN {<<>>}
    ELSE LET shorter == SeqsUpTo(S, n - 1)
         IN  shorter \cup {Append(s, x) : s \in shorter, x \in S}

LinkLists == SeqsUpTo({LinkAnchor(i) : i \in 0..NumSitePages}, MaxLinks)

\* product headings: three spellings that slugify to the same product_id
\* (with different descriptions, one of them empty), a second product, and a
\* heading that is no product name
H_LifeCover  == Heading(<<"L","i","f","e"," ","C","o","v","e","r">>, <<>>)
H_LifeCover2 == Heading(<<"L","i","f","e","-","C","o","v","e","r">>, <<"p","a","y","s">>)
H_LifeCover3 == Heading(<<"L","I","F","E"," ","C","O","V","E","R">>, <<"t","e","r","m">>)
H_MotorPlan  == Heading(<<"M","o","t","o","r"," ","P","l","a","n">>, <<"c","a","r","s">>)
H_About      == Heading(<<"A","b","o","u","t">>, <<>>)

\* document links: the same file reached with a generic anchor text, with a
\* text naming a product, with no text at all (typed and accepted by its
\* URL), as a brochure, and a link that is no product document
A_Wording      == Anchor(<<"/","d","/","f","h","p",".","p","d","f">>, <<"P","o","l","i","c","y"," ","W","o","r","d","i","n","g">>)
A_WordingNamed == Anchor(<<"/","d","/","f","h","p",".","p","d","f">>, <<"L","i","f","e"," ","C","o","v","e","r"," ","p","o","l","i","c","y"," ","w","o","r","d","i","n","g">>)
A_WordingBare  == Anchor(<<"/","p","o","l","i","c","y","-","w","o","r","d","i","n","g","/","f","h","p",".","p","d","f">>, <<>>)
A_Brochure     == [Anchor(<<"/","d","/","f","h","p",".","d","o","c">>, <<"L","e","a","f","l","e","t">>) EXCEPT !.attrs = [title |-> <<"B","r","o","c","h","u","r","e">>]]
A_Terms        == Anchor(<<"/","d","o","w","n","l","o","a","d","/","t","e","r","m","s",".","p","d","f">>, <<"T","e","r","m","s">>)
A_Offsite      == Anchor(<<"h","t","t","p","s",":","/","/","z","/">>, <<"p","a","r","t","n","e","r">>)
A_Mail         == Anchor(<<"m","a","i","l","t","o",":","x">>, <<"m","a","i","l">>)

\* what a page of the site may hold besides its navigation links
PageContents ==
    { [headings |-> <<H_LifeCover3>>, anchors |-> <<A_Offsite, A_Mail>>, text |-> <<>>],
      [headings |-> <<H_LifeCover>>, anchors |-> <<A_Wording>>, text |-> <<>>],
      [headings |-> <<H_LifeCover2, H_About>>, anchors |-> <<A_WordingBare>>,
       text |-> <<"h","e","a","l","t","h">>],
      [headings |-> <<H_LifeCover, H_MotorPlan>>, anchors |-> <<A_WordingNamed>>,
       text |-> <<>>],
      [headings |-> <<H_MotorPlan>>, anchors |-> <<A_Brochure, A_Terms>>, text |-> <<>>],
      [headings |-> <<>>, anchors |-> <<A_Wording>>, text |-> <<>>],
      [headings |-> <<H_LifeCover, H_LifeCover2>>, anchors |-> <<A_Wording>>, text |-> <<>>],
      [headings |-> <<H_LifeCover, H_MotorPlan>>, anchors |-> <<A_Wording>>, text |-> <<>>],
      [headings |-> <<H_LifeCover, H_MotorPlan, H_LifeCover2>>,
       anchors |-> <<A_WordingNamed>>, text |-> <<>>] }

\* the pages a fetch may return
Pages ==
    {[c EXCEPT !.anchors = @ \o links] : c \in PageContents, links \in LinkLists}

\* answers of the document host
Resp(error, size, pdf_text) ==
    [error |-> error, content_length |-> size, size |-> size, content |-> <<"c">>,
     write_ok |-> TRUE, pdf_ok |-> TRUE, pdf_text |-> pdf_text]

Responses ==
    { Resp(TRUE, 0, <<>>),
      Resp(FALSE, 9, <<"C","L","A","I","M","S","\n","c","a","l","l"," ","u","s",".">>),
      Resp(FALSE, 9, <<"B","e","n","e","f","i","t","s","\n","p","a","i","d",".">>),
      Resp(FALSE, max_document_size + 1, <<"x">>),
      [Resp(FALSE, 9, <<"x">>) EXCEPT !.write_ok = FALSE],
      [Resp(FALSE, 9, <<"x">>) EXCEPT !.pdf_ok = FALSE] }

Insurers ==
    {[insurer_id |-> <<"i">>, website_url |-> w] : w \in {<<>>, <<"h","t","t","p","s",":","/","/","a","/">>, <<"a">>}}

\* the URLs of the site's pages
SiteUrls == {make_absolute_url(PagePath(i), <<"h","t","t","p","s",":","/","/","a","/">>) : i \in 0..NumSitePages}

Configs ==
    [max_pages_per_insurer : 0..MaxPagesBound,
     max_depth             : 0..MaxDepthBound,
     download_documents    : BOOLEAN]

(***************************************************************************)
(* State                                                                   *)
(***************************************************************************)
VARIABLES
    insurer,       \* the argument of crawl_insurer
    config,        \* ProductCrawlerConfig
    pc,            \* "call", "loop" (at the while test), "done"
    root_url,
    queue,         \* deque of CrawlTask [url, depth]
    visited,
    products,      \* dict product_id -> Product, as a sequence in insertion order
    documents,     \* dict document_id -> ProductDocument, likewise
    stats,
    result,        \* the ProductCrawlResult returned, or None
    attempts,      \* history: per URL, the calls of _fetch_html (how many, at which
                   \* depths, whether one returned None)
    last,          \* history: what the last loop iteration did, and the page it got
    seen_products, \* history: every candidate _extract_products returned, in order
    log,           \* history: every pass of the loop of _associate_documents, in order
    norm,          \* a run of PolicyNormalizer on one text (see NormalizerSpec)
    merge,         \* a page merged twice into an accumulator (see MergeSpec)
    run,           \* InsuranceDataPipeline.run (see PipelineSpec)
    graph,         \* history: the links _extract_links returned for every page
                   \* fetched, in order (kept in BfsSpec)
    infer,         \* a call of _infer_document_type (see InferSpec)
    db             \* the table policy_sections of the repository (see UpsertSpec)

\* the state of crawl_insurer, and the state of the other operations
crawl == <<insurer, config, pc, root_url, queue, visited, products, documents, stats,
           result, attempts, last, seen_products, log>>

others == <<norm, merge, run, graph, infer, db>>

vars == <<crawl, others>>

\* an operation that was not started
NotStarted == [pc |-> "none"]

NoPage == <<>>

NoEvent == [kind |-> "none", url |-> <<>>, depth |-> 0, page |-> NoPage]

Init ==
    /\ insurer \in Insurers
    /\ config \in Configs
    /\ pc = "call"
    /\ root_url = <<>>
    /\ queue = <<>>
    /\ visited = {}
    /\ products = <<>>
    /\ documents = <<>>
    /\ stats = <<>>
    /\ result = None
    /\ attempts = <<>>
    /\ last = NoEvent
    /\ seen_products = <<>>
    /\ log = <<>>
    /\ norm = NotStarted
    /\ merge = NotStarted
    /\ run = NotStarted
    /\ graph = <<>>
    /\ infer = NotStarted
    /\ db = NotStarted

ProductCrawlResult(p, d, s) ==
    [insurer |-> insurer, products |-> p, documents |-> d, stats |-> s]

(***************************************************************************)
(* crawl_insurer                                                           *)
(***************************************************************************)
\* the call with an insurer without website URL
CrawlNoWebsite ==
    /\ pc = "call"
    /\ ensure_url_has_scheme(insurer.website_url) = <<>>
    /\ root_url' = ensure_url_has_scheme(insurer.website_url)
    /\ result' = ProductCrawlResult(<<>>, <<>>, <<>>)
    /\ pc' = "done"
    /\ UNCHANGED others
    /\ UNCHANGED <<insurer, config, queue, visited, products, documents, stats,
                   attempts, last, seen_products, log>>

\* the call up to the first test of the while loop
CrawlBegin ==
    /\ pc = "call"
    /\ ensure_url_has_scheme(insurer.website_url) # <<>>
    /\ root_url' = ensure_url_has_scheme(insurer.website_url)
    /\ queue' = <<[url |-> root_url', depth |-> 0]>>
    /\ visited' = {}
    /\ products' = <<>>
    /\ documents' = <<>>
    /\ stats' = [pages_visited |-> 0, pages_skipped |-> 0, documents_found |-> 0]
    /\ pc' = "loop"
    /\ UNCHANGED others
    /\ UNCHANGED <<insurer, config, result, attempts, last, seen_products, log>>

\* a faulty variant of LoopTest that ignores the page budget
LoopTest_NoBudget == queue # <<>>

\* a faulty variant of LoopTest that lets the budget be reached twice
LoopTest_OffByOne ==
    queue # <<>> /\ stats.pages_visited <= config.max_pages_per_insurer

\* the while condition
LoopTest ==
    queue # <<>> /\ stats.pages_visited < config.max_pages_per_insurer

\* the loop ends and the result is returned
CrawlReturn ==
    /\ pc = "loop"
    /\ ~LoopTest
    /\ result' = ProductCrawlResult(products, documents, stats)
    /\ pc' = "done"
    /\ UNCHANGED others
    /\ UNCHANGED <<insurer, config, root_url, queue, visited, products, documents, stats,
                   attempts, last, seen_products, log>>

task == Head(queue)

\* an iteration whose URL was visited before: "continue"
IterAlreadyVisited ==
    /\ pc = "loop" /\ LoopTest
    /\ task.url \in visited
    /\ queue' = Tail(queue)
    /\ last' = [kind |-> "duplicate", url |-> task.url, depth |-> task.depth,
                page |-> NoPage]
    /\ UNCHANGED others
    /\ UNCHANGED <<insurer, config, pc, root_url, visited, products, documents, stats,
                   result, attempts, seen_products, log>>

\* a faulty variant of MarkVisited that forgets the URL
MarkVisited_Forget(url) == visited

\* visited.add(url)
MarkVisited(url) == visited \cup {url}

\* a faulty variant of DepthExceeded that allows one more level
DepthExceeded_OneMore(t) == t.depth > config.max_depth + 1

\* task.depth > self.config.max_depth
DepthExceeded(t) == t.depth > config.max_depth

\* an iteration whose task is too deep: skipped without a fetch
IterDepthExceeded ==
    /\ pc = "loop" /\ LoopTest
    /\ task.url \notin visited
    /\ DepthExceeded(task)
    /\ queue' = Tail(queue)
    /\ visited' = MarkVisited(task.url)
    /\ stats' = [stats EXCEPT !.pages_skipped = @ + 1]
    /\ last' = [kind |-> "too_deep", url |-> task.url, depth |-> task.depth,
                page |-> NoPage]
    /\ UNCHANGED others
    /\ UNCHANGED <<insurer, config, pc, root_url, products, documents, result,
                   attempts, seen_products, log>>

\* what attempts holds of a URL that was never fetched
NoAttempt == [count |-> 0, depths |-> {}, failed |-> FALSE]

AttemptsOf(url) == IF url \in DOMAIN attempts THEN attempts[url] ELSE NoAttempt

\* the call of _fetch_html for a task, recorded; failed: it returned None
Attempt(t, failed) ==
    [u \in DOMAIN attempts \cup {t.url} |->
        IF u = t.url
        THEN [count  |-> AttemptsOf(u).count + 1,
              depths |-> AttemptsOf(u).depths \cup {t.depth},
              failed |-> AttemptsOf(u).failed \/ failed]
        ELSE attempts[u]]

\* a faulty variant of FailedFetchStats that counts a failed fetch as a visit
FailedFetchStats_CountsVisit == [stats EXCEPT !.pages_visited = @ + 1]

\* a faulty variant of FailedFetchStats that counts nothing
FailedFetchStats_NoCount == stats

\* stats after _fetch_html returned None
FailedFetchStats == [stats EXCEPT !.pages_skipped = @ + 1]

\* an iteration whose fetch fails: _fetch_html returns None on a network
\* error, a status that is not 2xx or a content type that is not HTML
IterFetchFailed ==
    /\ pc = "loop" /\ LoopTest
    /\ task.url \notin visited
    /\ ~DepthExceeded(task)
    /\ queue' = Tail(queue)
    /\ visited' = MarkVisited(task.url)
    /\ attempts' = Attempt(task, TRUE)
    /\ stats' = FailedFetchStats
    /\ last' = [kind |-> "fetch_failed", url |-> task.url, depth |-> task.depth,
                page |-> NoPage]
    /\ UNCHANGED others
    /\ UNCHANGED <<insurer, config, pc, root_url, products, documents, result,
                   seen_products, log>>

\* requests can only get a URL that has an http(s) scheme and a host
Fetchable(url) ==
    /\ urlparse(url).scheme \in {<<"h","t","t","p">>, <<"h","t","t","p","s">>}
    /\ urlparse(url).netloc # <<>>

\* a faulty variant of Enqueue that puts the new tasks at the front
Enqueue_Front(q, tasks) == tasks \o q

\* queue.append for the tasks of a page
Enqueue(q, tasks) == q \o tasks

\* a faulty variant of NewTasks that counts two levels for a link
NewTasks_TwoDeeper(links, seen, depth) ==
    LET fresh == SelectSeq(links, LAMBDA l : l \notin seen)
    IN  [i \in 1..Len(fresh) |-> [url |-> fresh[i], depth |-> depth + 2]]

\* the tasks appended for the links of a page
NewTasks(links, seen, depth) ==
    LET fresh == SelectSeq(links, LAMBDA l : l \notin seen)
    IN  [i \in 1..Len(fresh) |-> [url |-> fresh[i], depth |-> depth + 1]]

\* the answers the document host may give for the documents of a page
ResponseLists(page_documents) ==
    [1..Len(page_documents) ->
        IF config.download_documents THEN Responses ELSE {Resp(TRUE, 0, <<>>)}]

\* product_id and name of the products of a list
IdsAndNames(product_list) ==
    [i \in 1..Len(product_list) |->
        [product_id |-> product_list[i].product_id, name |-> product_list[i].name]]

\* how DocumentProcessor.process_document ended for an answer of the
\* document host: not called, left in the except branch of _download, left
\* with the exception of extract_pdf_text swallowed, or run to its end
Outcome(resp) ==
    IF ~config.download_documents THEN "not_called"
    ELSE IF DownloadRaises(resp) \/ ~resp.write_ok THEN "download_failed"
    ELSE IF ~resp.pdf_ok THEN "extraction_failed"
    ELSE "processed"

\* the passes of _associate_documents on a page, recorded with the outcome of
\* process_document and the two arguments the candidates are taken from
PageLog(entries, resps, page_products, all_products) ==
    [i \in 1..Len(entries) |->
        [document      |-> entries[i].document,
         outcome       |-> Outcome(resps[i]),
         matched       |-> entries[i].matched,
         sections      |-> entries[i].sections,
         live          |-> entries[i].live,
         page_products |-> IdsAndNames(page_products),
         all_products  |-> IdsAndNames(all_products)]]

\* crawl_insurer, the loop body from "stats["pages_visited"] += 1" on, with
\* what _associate_documents left in the two dicts
PageDone(page, page_products, page_documents, resps, out) ==
    /\ visited' = MarkVisited(task.url)
    /\ attempts' = Attempt(task, FALSE)
    /\ stats' = [stats EXCEPT
                    !.pages_visited = @ + 1,
                    !.documents_found = @ + Len(page_documents)]
    /\ products' = out.products
    /\ documents' = out.documents
    /\ queue' = Enqueue(Tail(queue),
                        NewTasks(_extract_links(page, task.url, root_url),
                                 visited', task.depth))
    /\ seen_products' = seen_products \o page_products
    /\ log' = log \o PageLog(out.log, resps, page_products, out.products)

PageExtracted(page, page_products, page_documents) ==
    \E resps \in ResponseLists(page_documents) :
        PageDone(page, page_products, page_documents, resps,
                 _associate_documents(page_products, page_documents, resps,
                                      products, MergeProducts(products, page_products),
                                      documents, config.download_documents))

\* an iteration that fetches and processes a page, one of pages
IterPageOf(pages) ==
    /\ pc = "loop" /\ LoopTest
    /\ task.url \notin visited
    /\ ~DepthExceeded(task)
    /\ Fetchable(task.url)
    /\ \E page \in pages :
          /\ last' = [kind |-> "page", url |-> task.url, depth |-> task.depth,
                      page |-> page]
          /\ PageExtracted(page, _extract_products(insurer, task.url, page),
                           _extract_documents(insurer, task.url, page))
    /\ UNCHANGED <<insurer, config, pc, root_url, result>>

IterPage == IterPageOf(Pages) /\ UNCHANGED others

Next ==
    \/ CrawlNoWebsite
    \/ CrawlBegin
    \/ IterAlreadyVisited
    \/ IterDepthExceeded
    \/ IterFetchFailed
    \/ IterPage
    \/ CrawlReturn

Spec == Init /\ [][Next]_vars

\* the crawl is a sequential loop: it takes its next step whenever it has one
FairSpec == Spec /\ WF_vars(Next)
(***************************************************************************)
(* Properties of crawl_insurer                                             *)
(***************************************************************************)
\* a crawl was started: the insurer has a website URL and the loop was
\* entered
Crawling == pc # "call" /\ root_url # <<>>

\* the crawl returned its result
Returned == pc = "done" /\ root_url # <<>>

\* the step is an iteration of the while loop: it dequeues Head(queue)
Dequeues == pc = "loop" /\ pc' = "loop" /\ queue # <<>>

\* C1: in every reachable state of a crawl, whatever the pages, their links
\* and the fetch outcomes, stats.pages_visited <= max_pages_per_insurer.
C1_PagesWithinBudget ==
    Crawling => stats.pages_visited <= config.max_pages_per_insurer

\* a budget of two pages is used up while tasks are queued
C1_BudgetUsedUp ==
    /\ pc = "loop"
    /\ queue # <<>>
    /\ config.max_pages_per_insurer = 2
    /\ stats.pages_visited = config.max_pages_per_insurer

\* C2: within one crawl no URL is passed to _fetch_html more than once.
C2_NoUrlFetchedTwice ==
    \A u \in DOMAIN attempts : attempts[u].count <= 1

\* a URL whose page was fetched is dequeued once more and dropped
C2_FetchedUrlDequeuedAgain ==
    /\ last.kind = "duplicate"
    /\ AttemptsOf(last.url).count = 1
    /\ ~AttemptsOf(last.url).failed

\* C3, as stated: every dequeued task with depth > max_depth is not fetched,
\* is marked visited and increments pages_skipped.
C3_EveryDeepTaskCounted ==
    [][Dequeues /\ task.depth > config.max_depth =>
          /\ attempts' = attempts
          /\ task.url \in visited'
          /\ stats'.pages_skipped = stats.pages_skipped + 1]_vars

\* C3, amended: a dequeued task with depth > max_depth is never fetched and
\* its URL is visited afterwards; pages_skipped is incremented by one when
\* the URL was not visited before, and stats are unchanged when it was (the
\* task is dropped before the depth test); every fetch was made at a depth
\* <= max_depth.
C3_DeepTaskNeverFetched ==
    [][/\ (Dequeues /\ task.depth > config.max_depth =>
              /\ attempts' = attempts
              /\ task.url \in visited'
              /\ (task.url \notin visited =>
                      stats'.pages_skipped = stats.pages_skipped + 1)
              /\ (task.url \in visited => stats' = stats))
       /\ \A u \in DOMAIN attempts' :
              \A d \in attempts'[u].depths : d <= config.max_depth]_vars

\* a page at depth max_depth + 1 was skipped and never fetched
C3_SkippedAtDepthLimit ==
    /\ last.kind = "too_deep"
    /\ last.depth = config.max_depth + 1
    /\ last.url \notin DOMAIN attempts
    /\ last.url \in visited
    /\ stats.pages_skipped >= 1

\* C4: the crawl loop terminates, and at termination the queue is empty or
\* pages_visited = max_pages_per_insurer.
C4_Terminates ==
    /\ <>(pc = "done")
    /\ [](Returned =>
            queue = <<>> \/ stats.pages_visited = config.max_pages_per_insurer)

\* a crawl returned on an exhausted budget with tasks still queued
C4_ReturnedOnBudget ==
    /\ Returned
    /\ queue # <<>>
    /\ stats.pages_visited = config.max_pages_per_insurer
    /\ stats.pages_visited > 0

\* the step is an iteration in which _fetch_html was called and returned None
FetchFails ==
    /\ Dequeues
    /\ task.url \in DOMAIN attempts'
    /\ attempts'[task.url].count = AttemptsOf(task.url).count + 1
    /\ attempts'[task.url].failed

\* C5: a failed fetch increments pages_skipped by one and leaves
\* pages_visited, products and documents unchanged; the URL is in visited and
\* stays there, so it is never fetched again; the loop goes on with the next
\* queued task.
C5_FailedFetchSkipped ==
    [][/\ (FetchFails =>
              /\ stats'.pages_skipped = stats.pages_skipped + 1
              /\ stats'.pages_visited = stats.pages_visited
              /\ products' = products
              /\ documents' = documents
              /\ task.url \in visited'
              /\ queue' = Tail(queue)
              /\ result' = result)
       /\ visited \subseteq visited'
       /\ \A u \in DOMAIN attempts' :
              attempts'[u].failed => u \in visited' /\ attempts'[u].count = 1]_vars

\* after a failed fetch the loop went on: it dequeued the URL once more and
\* did not fetch it again
C5_ContinuedAfterFailure ==
    /\ last.kind = "duplicate"
    /\ AttemptsOf(last.url).failed
    /\ AttemptsOf(last.url).count = 1
    /\ stats.pages_skipped = 1

\* the products of a list that have the given product_id
WithProductId(product_list, product_id) ==
    SelectSeq(product_list, LAMBDA p : p.product_id = product_id)

\* C6: a document that was associated to a product is in the documents of
\* the product with that product_id in the returned result, and the rows
\* normalize returned for it are in that product's policy_sections.
C6_AssociatedDocumentInResult ==
    Returned =>
        \A i \in 1..Len(log) :
            log[i].matched # None =>
                \E j \in 1..Len(result.products) :
                    /\ result.products[j].product_id = log[i].matched
                    /\ \E k \in 1..Len(result.products[j].documents) :
                          result.products[j].documents[k].document_id
                              = log[i].document.document_id
                    /\ Range(log[i].sections)
                          \subseteq Range(result.products[j].policy_sections)

\* the first non-empty description of a list of candidates, or the empty one
RECURSIVE EarliestDescription(_)
EarliestDescription(candidates) ==
    IF candidates = <<>> THEN <<>>
    ELSE IF Head(candidates).description # <<>> THEN Head(candidates).description
    ELSE EarliestDescription(Tail(candidates))

\* what C7 says of the product that the candidates cs (two or more, of one
\* product_id) were merged into
MergedFrom(product, cs) ==
    /\ DOMAIN product.metadata = UNION {DOMAIN cs[i].metadata : i \in DOMAIN cs}
    /\ \A k \in DOMAIN product.metadata :
          \E i \in DOMAIN cs :
              k \in DOMAIN cs[i].metadata /\ cs[i].metadata[k] = product.metadata[k]
    /\ Range(product.tags) = UNION {Range(cs[i].tags) : i \in DOMAIN cs}
    /\ \A a, b \in DOMAIN product.tags : product.tags[a] = product.tags[b] => a = b
    /\ product.description = EarliestDescription(cs)

\* C7: candidates with the same product_id give exactly one product in the
\* result, with the union of their metadata, the duplicate-free union of
\* their tags and the earliest non-empty description.
C7_CandidatesMerged ==
    Returned =>
        \A c \in Range(seen_products) :
            Len(WithProductId(seen_products, c.product_id)) >= 2 =>
                /\ Len(WithProductId(result.products, c.product_id)) = 1
                /\ MergedFrom(WithProductId(result.products, c.product_id)[1],
                              WithProductId(seen_products, c.product_id))

\* a crawl returned that saw two candidates of one product_id with different
\* non-empty descriptions, and one with an empty description before them
C7_ThreeCandidatesSeen ==
    /\ Returned
    /\ \E i, j, k \in DOMAIN seen_products :
          /\ i < j /\ j < k
          /\ seen_products[i].product_id = seen_products[j].product_id
          /\ seen_products[j].product_id = seen_products[k].product_id
          /\ seen_products[i].description = <<>>
          /\ seen_products[j].description # <<>>
          /\ seen_products[k].description # <<>>
          /\ seen_products[j].description # seen_products[k].description

\* C8: document_ids in the result are pairwise distinct, and the entry of a
\* document_id has the metadata keys of every discovery of it.
C8_OneEntryPerDocument ==
    Returned =>
        /\ \A i, j \in 1..Len(result.documents) :
              result.documents[i].document_id = result.documents[j].document_id
                  => i = j
        /\ \A k \in 1..Len(log) :
              \E i \in 1..Len(result.documents) :
                  /\ result.documents[i].document_id = log[k].document.document_id
                  /\ DOMAIN log[k].document.metadata
                        \subseteq DOMAIN result.documents[i].metadata

\* a crawl returned that discovered one document_id on two pages
C8_DocumentOnTwoPages ==
    /\ Returned
    /\ \E i, j \in 1..Len(log) :
          /\ log[i].document.document_id = log[j].document.document_id
          /\ log[i].document.metadata.page_url # log[j].document.metadata.page_url

\* C9: an entry of the insurer-wide documents keeps a local_path and an
\* extracted_text it has, and no non-empty metadata value of it becomes
\* empty.
C9_PopulatedFieldsKept ==
    [][\A i \in 1..Len(documents) :
          /\ documents[i].local_path # None =>
                documents'[i].local_path = documents[i].local_path
          /\ documents[i].extracted_text # <<>> =>
                documents'[i].extracted_text = documents[i].extracted_text
          /\ \A k \in DOMAIN documents[i].metadata :
                documents[i].metadata[k] # <<>> => documents'[i].metadata[k] # <<>>]_vars

\* the products of a list, each product_id once, in the order of the list
RECURSIVE FirstOccurrences(_, _)
FirstOccurrences(product_list, ids) ==
    IF product_list = <<>> THEN <<>>
    ELSE IF Head(product_list).product_id \in ids
         THEN FirstOccurrences(Tail(product_list), ids)
    ELSE <<Head(product_list)>>
         \o FirstOccurrences(Tail(product_list),
                             ids \cup {Head(product_list).product_id})

\* the reference of C10 on a list of candidates: the product_id of the first
\* whose lower-cased name is in the lower-cased anchor text, else of the
\* only candidate, else None
ReferenceMatch(anchor_text, candidates) ==
    IF \E i \in 1..Len(candidates) :
          Contains(Lower(anchor_text), Lower(candidates[i].name))
    THEN candidates[CHOOSE i \in 1..Len(candidates) :
            /\ Contains(Lower(anchor_text), Lower(candidates[i].name))
            /\ \A j \in 1..(i - 1) :
                  ~Contains(Lower(anchor_text), Lower(candidates[j].name))].product_id
    ELSE IF Len(candidates) = 1 THEN candidates[1].product_id
    ELSE None

\* C10: every document is associated as the reference says, the candidates
\* being the products found on the page, in the order of the page's product
\* list, or all products known so far when the page yielded none.
C10_MatchesReference ==
    \A i \in 1..Len(log) :
        log[i].matched =
            ReferenceMatch(log[i].document.metadata.anchor_text,
                           IF log[i].page_products # <<>>
                           THEN FirstOccurrences(log[i].page_products, {})
                           ELSE log[i].all_products)

(***************************************************************************)
(* Unassociated documents and failed downloads                             *)
(***************************************************************************)
\* the products a pass of _associate_documents could choose from: those of
\* the page, or all known ones when the page had none
CandidatesOf(entry) ==
    IF entry.page_products # <<>> THEN entry.page_products ELSE entry.all_products

\* the pass had no candidate, or candidates of several product_ids none of
\* whose names is in the anchor text
Unassociable(entry) ==
    /\ Cardinality({CandidatesOf(entry)[i].product_id :
                        i \in 1..Len(CandidatesOf(entry))}) # 1
    /\ \A i \in 1..Len(CandidatesOf(entry)) :
          ~Contains(Lower(entry.document.metadata.anchor_text),
                    Lower(CandidatesOf(entry)[i].name))

\* C11: a document discovered with no candidate product, or with several
\* and no name in its anchor text, is not associated: its product_id stays
\* None; the result has an entry of its document_id, whose product_id is None
\* unless another discovery of the same document_id was associated.
C11_UnassociatedDocumentKept ==
    \A i \in 1..Len(log) :
        Unassociable(log[i]) =>
            /\ log[i].matched = None
            /\ log[i].document.product_id = None
            /\ Returned =>
                  \E k \in 1..Len(result.documents) :
                      /\ result.documents[k].document_id = log[i].document.document_id
                      /\ (\A j \in 1..Len(log) :
                              log[j].document.document_id = log[i].document.document_id
                                  => log[j].matched = None)
                            => result.documents[k].product_id = None

\* a crawl returned that found a document on a page with no product known
\* and a document on a page with two products, neither named in the link
C11_NoneAndSeveralCandidates ==
    /\ Returned
    /\ \E i, j \in 1..Len(log) :
          /\ Unassociable(log[i]) /\ CandidatesOf(log[i]) = <<>>
          /\ Unassociable(log[j]) /\ Len(CandidatesOf(log[j])) >= 2

\* the download or the extraction of the pass failed: the request raised or
\* answered a status that is not 2xx, the content was oversized, the file
\* could not be written, or extract_pdf_text raised
DownloadOrExtractionFailed(entry) ==
    entry.outcome \in {"download_failed", "extraction_failed"}

\* C12: a document whose download or extraction failed has no extracted
\* text and no local_path, no policy section is produced from it, and it is
\* in the documents of the result.
C12_FailedDocumentKept ==
    \A i \in 1..Len(log) :
        DownloadOrExtractionFailed(log[i]) =>
            /\ log[i].document.extracted_text = <<>>
            /\ log[i].document.local_path = None
            /\ log[i].sections = <<>>
            /\ Returned =>
                  \E k \in 1..Len(result.documents) :
                      result.documents[k].document_id = log[i].document.document_id

(***************************************************************************)
(* PolicyNormalizer on its own: one text is segmented, then normalized for *)
(* a product of one category                                               *)
(***************************************************************************)
\* most lines of a text
MaxLines == 4

\* lines of a policy text: body lines (one with a run of two spaces, one of
\* Devanagari only), headings (one that contains an alias of "Claims", the
\* canonical name itself, one in capitals with a colon), and an empty line
TextLines ==
    { <<"i","n","t","r","o"," "," ","t","e","x","t",".">>, <<"c","a","l","l"," ","u","s",".">>, <<"U+0915", "U+0915">>, <<"C","l","a","i","m","s"," ","H","e","l","p">>, <<"C","l","a","i","m","s">>,
      <<"E","X","C","L","U","S","I","O","N","S",":">>, <<>> }

Texts == {JoinLines(ls) : ls \in SeqsUpTo(TextLines, MaxLines)}

\* categories of products: those of the schemas and one without a schema
Categories == DOMAIN POLICY_SCHEMAS \cup {"other"}

\* a row the product holds before the document is normalized
EarlierRow ==
    [product_id |-> <<"i","-","p">>, category |-> "health", schema_version |-> "1.0",
     section_name |-> <<"R","e","n","e","w","a","l">>, content |-> <<"y","e","a","r","l","y">>, confidence |-> 10,
     source_document_id |-> <<"i","-","o","l","d","-","p","o","l","i","c","y","_","w","o","r","d","i","n","g">>]

NormalizerInit ==
    /\ norm \in [pc : {"start"}, text : Texts, category : Categories,
                 sections : {<<>>}, rows : {<<>>},
                 policy_sections : {<<EarlierRow>>}]
    /\ merge = NotStarted
    /\ run = NotStarted
    /\ insurer = None /\ config = None /\ pc = "none" /\ root_url = <<>>
    /\ queue = <<>> /\ visited = {} /\ products = <<>> /\ documents = <<>>
    /\ stats = <<>> /\ result = None /\ attempts = <<>> /\ last = NoEvent
    /\ seen_products = <<>> /\ log = <<>> /\ graph = <<>>
    /\ infer = NotStarted /\ db = NotStarted

\* _split_sections(text)
Segment ==
    /\ norm.pc = "start"
    /\ norm' = [norm EXCEPT !.pc = "segmented", !.sections = _split_sections(norm.text)]
    /\ UNCHANGED <<crawl, graph, infer, db, merge, run>>

\* normalize(product, document) for a product of the category and a
\* document with the text
Normalize ==
    /\ norm.pc = "segmented"
    /\ norm' = [norm EXCEPT
                  !.pc = "done",
                  !.rows = normalize([product_id |-> <<"i","-","p">>, category |-> norm.category],
                                     [document_id |-> <<"i","-","d","-","p","o","l","i","c","y","_","w","o","r","d","i","n","g">>,
                                      extracted_text |-> norm.text])]
    /\ UNCHANGED <<crawl, graph, infer, db, merge, run>>

\* _associate_documents, "matched_product.extend_policy_sections(sections)"
\* with the rows normalize returned
ExtendSections ==
    /\ norm.pc = "done"
    /\ norm' = [norm EXCEPT
                  !.pc = "extended",
                  !.policy_sections =
                      extend_policy_sections([policy_sections |-> @], norm.rows).policy_sections]
    /\ UNCHANGED <<crawl, graph, infer, db, merge, run>>

NormalizerNext == Segment \/ Normalize \/ ExtendSections

NormalizerSpec == NormalizerInit /\ [][NormalizerNext]_vars

(***************************************************************************)
(* Properties of PolicyNormalizer                                          *)
(***************************************************************************)
\* the section's title is the canonical name of the definition, whatever
\* the case
TitleIsName(section, definition) == Lower(section[1]) = Lower(definition.name)

\* the section's title contains one of the definition's aliases
TitleHasAlias(section, definition) ==
    \E a \in 1..Len(definition.aliases) :
        Contains(Lower(section[1]), Lower(definition.aliases[a]))

\* the sections of the schema the normalizer was run for
SchemaSections == POLICY_SCHEMAS[norm.category].sections

\* normalize was run on a non-empty text for a category that has a schema
Normalized ==
    /\ norm.pc = "done"
    /\ norm.text # <<>>
    /\ norm.category \in DOMAIN POLICY_SCHEMAS

\* C13: for a category with a schema and a non-empty text, normalize returns
\* one row per canonical section of the schema, in schema order, each named
\* after its section.
C13_OneRowPerSection ==
    Normalized =>
        /\ Len(norm.rows) = Len(SchemaSections)
        /\ \A i \in 1..Len(norm.rows) :
              norm.rows[i].section_name = SchemaSections[i].name

\* normalize was run on a text with two sections that match one definition
\* while another definition matches none
C13_TwoMatchesAndNone ==
    /\ Normalized
    /\ \E d \in 1..Len(SchemaSections) :
          \E i, j \in 1..Len(norm.sections) :
              /\ i # j
              /\ TitleHasAlias(norm.sections[i], SchemaSections[d])
              /\ TitleHasAlias(norm.sections[j], SchemaSections[d])
    /\ \E d \in 1..Len(SchemaSections) :
          \A i \in 1..Len(norm.sections) :
              /\ ~TitleIsName(norm.sections[i], SchemaSections[d])
              /\ ~TitleHasAlias(norm.sections[i], SchemaSections[d])

\* C14: the row of a definition has confidence 1.0 (10 tenths) and the body
\* of a section whose title is the canonical name when there is one;
\* confidence 0.8 when no title is the name but one contains an alias; and
\* an empty content with confidence 0.0 otherwise.
C14_ConfidenceByMatch ==
    Normalized =>
        \A d \in 1..Len(SchemaSections) :
            IF \E i \in 1..Len(norm.sections) :
                  TitleIsName(norm.sections[i], SchemaSections[d])
            THEN /\ norm.rows[d].confidence = 10
                 /\ \E i \in 1..Len(norm.sections) :
                       /\ TitleIsName(norm.sections[i], SchemaSections[d])
                       /\ norm.rows[d].content = norm.sections[i][2]
            ELSE IF \E i \in 1..Len(norm.sections) :
                       TitleHasAlias(norm.sections[i], SchemaSections[d])
            THEN norm.rows[d].confidence = 8
            ELSE norm.rows[d].content = <<>> /\ norm.rows[d].confidence = 0

\* the lines of a text that are not blank and are no headings, as they are
\* in the text
BodyLinesOf(text) ==
    SelectSeq(SplitLines(text),
              LAMBDA l : Strip(l, SpaceChars) # <<>> /\ ~_looks_like_heading(clean_text(l)))

\* the lines of a text after clean_text that are not empty and no headings
CleanBodyLinesOf(text) ==
    SelectSeq([i \in 1..Len(SplitLines(text)) |-> clean_text(SplitLines(text)[i])],
              LAMBDA l : l # <<>> /\ ~_looks_like_heading(l))

\* the bodies of the sections, in output order
BodiesOf(sections) == [i \in 1..Len(sections) |-> sections[i][2]]

\* no line of a body of the sections is a heading
NoHeadingInBodies(sections) ==
    \A i \in 1..Len(sections) :
        \A j \in 1..Len(SplitLines(sections[i][2])) :
            ~_looks_like_heading(SplitLines(sections[i][2])[j])

\* C15, as stated: the bodies of the sections, joined by the line separator,
\* are the lines of the text that are neither empty nor headings, in their
\* order; no heading is a line of a body.
C15_BodiesAreTheLines ==
    norm.pc = "segmented" =>
        /\ JoinLines(BodiesOf(norm.sections)) = JoinLines(BodyLinesOf(norm.text))
        /\ NoHeadingInBodies(norm.sections)

\* C15, amended: the bodies of the sections, joined by the line separator,
\* are the lines of the text after clean_text (runs of whitespace collapsed,
\* Devanagari removed) that are then neither empty nor headings, in their
\* order; no heading is a line of a body.
C15_BodiesAreTheCleanLines ==
    norm.pc = "segmented" =>
        /\ JoinLines(BodiesOf(norm.sections)) = JoinLines(CleanBodyLinesOf(norm.text))
        /\ NoHeadingInBodies(norm.sections)

\* a text of four lines was segmented into an Overview section and a
\* section under a heading
C15_OverviewAndHeading ==
    /\ norm.pc = "segmented"
    /\ Len(SplitLines(norm.text)) = MaxLines
    /\ Len(norm.sections) = 2
    /\ norm.sections[1][1] = <<"O","v","e","r","v","i","e","w">>
    /\ norm.sections[2][1] = <<"E","X","C","L","U","S","I","O","N","S">>
    /\ Len(SplitLines(norm.sections[1][2])) = 2

(***************************************************************************)
(* The merge of a page into the accumulators of crawl_insurer, on its own: *)
(* a first page is merged into empty dicts, then a second page is merged   *)
(* twice                                                                   *)
(***************************************************************************)
\* a page without headings and links
EmptyPage == [headings |-> <<>>, anchors |-> <<>>, text |-> <<>>]

\* crawl_insurer, the loop body from _extract_products to
\* _associate_documents, for a page of the insurer "i"; every document of
\* the page gets the same answer of the document host
MergePage(acc, page_url, page, resp, download_documents) ==
    _associate_documents(_extract_products([insurer_id |-> <<"i">>], page_url, page),
                         _extract_documents([insurer_id |-> <<"i">>], page_url, page),
                         [i \in 1..Len(page.anchors) |-> resp],
                         acc.products,
                         MergeProducts(acc.products,
                                       _extract_products([insurer_id |-> <<"i">>], page_url, page)),
                         acc.documents,
                         download_documents)

\* the dicts products and documents
Accumulator(out) == [products |-> out.products, documents |-> out.documents]

MergeInit ==
    /\ merge \in [pc : {"start"}, prior : PageContents \cup {EmptyPage},
                  page : PageContents, response : Responses,
                  download_documents : BOOLEAN,
                  acc : {[products |-> <<>>, documents |-> <<>>]},
                  once : {None}]
    /\ norm = NotStarted
    /\ run = NotStarted
    /\ insurer = None /\ config = None /\ pc = "none" /\ root_url = <<>>
    /\ queue = <<>> /\ visited = {} /\ products = <<>> /\ documents = <<>>
    /\ stats = <<>> /\ result = None /\ attempts = <<>> /\ last = NoEvent
    /\ seen_products = <<>> /\ log = <<>> /\ graph = <<>>
    /\ infer = NotStarted /\ db = NotStarted

\* the first page, found at the home page's URL
MergePrior ==
    /\ merge.pc = "start"
    /\ merge' = [merge EXCEPT
                   !.pc = "prior",
                   !.acc = Accumulator(MergePage(merge.acc, <<"h","t","t","p","s",":","/","/","a","/">>, merge.prior,
                                                 merge.response, merge.download_documents))]
    /\ UNCHANGED <<crawl, graph, infer, db, norm, run>>

\* the second page, found at another URL, is merged
MergeOnce ==
    /\ merge.pc = "prior"
    /\ merge' = [merge EXCEPT
                   !.pc = "once",
                   !.acc = Accumulator(MergePage(merge.acc, <<"h","t","t","p","s",":","/","/","a","/","p","1">>, merge.page,
                                                 merge.response, merge.download_documents)),
                   !.once = Accumulator(MergePage(merge.acc, <<"h","t","t","p","s",":","/","/","a","/","p","1">>, merge.page,
                                                  merge.response, merge.download_documents))]
    /\ UNCHANGED <<crawl, graph, infer, db, norm, run>>

\* the second page is merged a second time
MergeAgain ==
    /\ merge.pc = "once"
    /\ merge' = [merge EXCEPT
                   !.pc = "again",
                   !.acc = Accumulator(MergePage(merge.acc, <<"h","t","t","p","s",":","/","/","a","/","p","1">>, merge.page,
                                                 merge.response, merge.download_documents))]
    /\ UNCHANGED <<crawl, graph, infer, db, norm, run>>

MergeNext == MergePrior \/ MergeOnce \/ MergeAgain

MergeSpec == MergeInit /\ [][MergeNext]_vars

\* C18: merging a page a second time leaves products (their documents and
\* policy_sections included) and documents as the first merge left them.
C18_MergeIdempotent ==
    merge.pc = "again" => merge.acc = merge.once

\* C16: crawl_insurer for an insurer without website URL fetches nothing
\* and returns no products, no documents, and the stats pages_visited,
\* pages_skipped and documents_found, each zero.
C16_NoWebsiteZeroStats ==
    (pc = "done" /\ root_url = <<>>) =>
        /\ attempts = <<>>
        /\ result.products = <<>>
        /\ result.documents = <<>>
        /\ {"pages_visited", "pages_skipped", "documents_found"} \subseteq DOMAIN result.stats
        /\ \A k \in {"pages_visited", "pages_skipped", "documents_found"} :
              result.stats[k] = 0

(***************************************************************************)
(* InsuranceDataPipeline.run: the loop over the insurers                   *)
(***************************************************************************)
MaxInsurers == 3

\* what the calls made for one insurer do: every call returns, or one of
\* them raises (crawl_insurer raises, for instance, the ValueError of
\* urljoin on the href "http://[bad"; an upsert raises an sqlite3 error)
InsurerOutcomes ==
    {"returns", "crawl_insurer_raises", "upsert_products_raises",
     "upsert_documents_raises", "upsert_policy_sections_raises"}

\* the calls of the loop body, in order
LoopCalls ==
    <<"crawl_insurer", "upsert_products", "upsert_documents", "upsert_policy_sections">>

\* the calls of the loop body made for an insurer of the given outcome: all
\* of them, or those up to the one that raises
RECURSIVE CallsUpTo(_, _)
CallsUpTo(calls, outcome) ==
    IF calls = <<>> THEN <<>>
    ELSE IF outcome = Head(calls) \o "_raises" THEN <<Head(calls)>>
    ELSE <<Head(calls)>> \o CallsUpTo(Tail(calls), outcome)

\* PipelineConfig.max_insurers: None, or a number
MaxInsurersValues ==
    {[is_none |-> TRUE, value |-> 0], [is_none |-> FALSE, value |-> MaxInsurers - 1]}

\* insurers[: max_insurers]
Truncate(list, max_insurers) ==
    IF max_insurers.is_none THEN list
    ELSE SubSeq(list, 1, IF max_insurers.value < Len(list)
                         THEN max_insurers.value ELSE Len(list))

PipelineInit ==
    /\ \E n \in 1..MaxInsurers :
          run \in [pc : {"start"}, insurers : [1..n -> InsurerOutcomes],
                   max_insurers : MaxInsurersValues,
                   index : {0}, calls : {<<>>}]
    /\ norm = NotStarted
    /\ merge = NotStarted
    /\ insurer = None /\ config = None /\ pc = "none" /\ root_url = <<>>
    /\ queue = <<>> /\ visited = {} /\ products = <<>> /\ documents = <<>>
    /\ stats = <<>> /\ result = None /\ attempts = <<>> /\ last = NoEvent
    /\ seen_products = <<>> /\ log = <<>> /\ graph = <<>>
    /\ infer = NotStarted /\ db = NotStarted

\* run, up to the first test of the for loop
RunBegin ==
    /\ run.pc = "start"
    /\ run' = [run EXCEPT !.pc = "loop", !.index = 1,
                          !.insurers = Truncate(run.insurers, run.max_insurers)]
    /\ UNCHANGED <<crawl, graph, infer, db, norm, merge>>

\* an iteration of the for loop all of whose calls return
RunInsurer ==
    /\ run.pc = "loop"
    /\ run.index <= Len(run.insurers)
    /\ run.insurers[run.index] = "returns"
    /\ run' = [run EXCEPT
                 !.index = @ + 1,
                 !.calls = @ \o [i \in 1..Len(LoopCalls) |->
                                    [insurer |-> run.index, call |-> LoopCalls[i]]]]
    /\ UNCHANGED <<crawl, graph, infer, db, norm, merge>>

\* an iteration of the for loop one of whose calls raises: nothing in run
\* catches the exception, which ends the call of run
RunInsurerRaises ==
    /\ run.pc = "loop"
    /\ run.index <= Len(run.insurers)
    /\ run.insurers[run.index] # "returns"
    /\ run' = [run EXCEPT
                 !.pc = "raised",
                 !.calls = @ \o [i \in 1..Len(CallsUpTo(LoopCalls, run.insurers[run.index])) |->
                                    [insurer |-> run.index,
                                     call |-> CallsUpTo(LoopCalls, run.insurers[run.index])[i]]]]
    /\ UNCHANGED <<crawl, graph, infer, db, norm, merge>>

\* the end of the for loop and of run
RunReturn ==
    /\ run.pc = "loop"
    /\ run.index > Len(run.insurers)
    /\ run' = [run EXCEPT !.pc = "done"]
    /\ UNCHANGED <<crawl, graph, infer, db, norm, merge>>

PipelineNext == RunBegin \/ RunInsurer \/ RunInsurerRaises \/ RunReturn

PipelineSpec == PipelineInit /\ [][PipelineNext]_vars

\* C17: when run has ended, every insurer of the list was crawled, those
\* after an insurer whose crawl or upsert failed included.
C17_RemainingInsurersCrawled ==
    run.pc \in {"done", "raised"} =>
        \A i \in 1..Len(run.insurers) :
            \E k \in 1..Len(run.calls) :
                run.calls[k] = [insurer |-> i, call |-> "crawl_insurer"]

(***************************************************************************)
(* crawl_insurer on a site of pages that carry links only: the order in    *)
(* which the pages are fetched                                             *)
(***************************************************************************)
\* pages of the larger site besides the home page
NumLinkedPages == 2
\* largest max_pages_per_insurer and max_depth tried on it
MaxBfsPages == 3
MaxBfsDepth == 2

\* pages without headings, with up to MaxLinks links to pages of the site
LinkPages ==
    {[EmptyPage EXCEPT !.anchors = links] :
        links \in SeqsUpTo({LinkAnchor(i) : i \in 0..NumLinkedPages}, MaxLinks)}

BfsConfigs ==
    [max_pages_per_insurer : 0..MaxBfsPages,
     max_depth             : 0..MaxBfsDepth,
     download_documents    : {FALSE}]

BfsInit ==
    /\ insurer \in Insurers
    /\ config \in BfsConfigs
    /\ pc = "call"
    /\ root_url = <<>>
    /\ queue = <<>>
    /\ visited = {}
    /\ products = <<>>
    /\ documents = <<>>
    /\ stats = <<>>
    /\ result = None
    /\ attempts = <<>>
    /\ last = NoEvent
    /\ seen_products = <<>>
    /\ log = <<>>
    /\ norm = NotStarted
    /\ merge = NotStarted
    /\ run = NotStarted
    /\ graph = <<>>
    /\ infer = NotStarted
    /\ db = NotStarted

\* an iteration that fetches and processes a page, whose links are recorded
IterLinkPage ==
    /\ IterPageOf(LinkPages)
    /\ graph' = Append(graph, [url   |-> task.url,
                               depth |-> task.depth,
                               links |-> _extract_links(last'.page, task.url, root_url)])
    /\ UNCHANGED <<norm, merge, run, infer, db>>

BfsNext ==
    \/ CrawlNoWebsite
    \/ CrawlBegin
    \/ IterAlreadyVisited
    \/ IterDepthExceeded
    \/ IterFetchFailed
    \/ IterLinkPage
    \/ CrawlReturn

BfsSpec == BfsInit /\ [][BfsNext]_vars

\* the URLs within k links of the seed, the links being those of the pages
\* that were fetched
RECURSIVE Within(_)
Within(k) ==
    IF k = 0 THEN {root_url}
    ELSE Within(k - 1)
         \cup UNION {Range(graph[i].links) :
                        i \in {n \in 1..Len(graph) : graph[n].url \in Within(k - 1)}}

\* the link distance of a fetched URL from the seed
Distance(url) ==
    CHOOSE k \in 0..Len(graph) : url \in Within(k) /\ \A n \in 0..(k - 1) : url \notin Within(n)

\* C19: the pages are fetched breadth first: the depth of a dequeued task is
\* at least that of the task dequeued before it, the depths of the fetched
\* pages never decrease, and every fetched page is fetched at its link
\* distance from the seed through the fetched pages.
C19_BreadthFirst ==
    /\ [](\A i \in 1..Len(graph) :
            /\ graph[i].depth = Distance(graph[i].url)
            /\ \A j \in i..Len(graph) : graph[i].depth <= graph[j].depth)
    /\ [][(Dequeues /\ queue' # <<>>) => Head(queue).depth <= Head(queue').depth]_vars

\* a crawl returned after fetching a page of depth 1 that links to a page
\* the seed links to as well, and then that page: it was queued at depth 1
\* and at depth 2
C19_LinkedFromTwoDepths ==
    /\ Returned
    /\ \E i, j \in 1..Len(graph) :
          /\ i < j
          /\ graph[i].depth = 1
          /\ graph[j].depth = 1
          /\ graph[j].url \in Range(graph[i].links)
          /\ graph[j].url \in Range(graph[1].links)

(***************************************************************************)
(* Document types                                                          *)
(***************************************************************************)
\* the links of the page fetched last that _infer_document_type types
\* "other" although _looks_like_download_link accepts them
OtherDownloadLinks ==
    IF last.kind # "page" THEN <<>>
    ELSE SelectSeq(_iter_document_links(last.page, last.url),
                   LAMBDA l : /\ _infer_document_type(l[3], l[2]) = "other"
                              /\ _looks_like_download_link(l[1], l[3], l[2]))

\* C20: every document of the documents dict, every document a product
\* holds and every document _associate_documents processed has one of the
\* types brochure, policy_wording, prospectus; none comes from a link whose
\* inferred type is "other".
C20_OnlyRequiredTypes ==
    /\ \A i \in 1..Len(documents) :
          documents[i].document_type \in REQUIRED_DOCUMENT_TYPES
    /\ Returned =>
          \A i \in 1..Len(result.documents) :
              result.documents[i].document_type \in REQUIRED_DOCUMENT_TYPES
    /\ \A i \in 1..Len(log) :
          /\ log[i].document.document_type \in REQUIRED_DOCUMENT_TYPES
          /\ _infer_document_type(log[i].document.metadata.anchor_text,
                                  log[i].document.source_url) # "other"
    /\ \A p \in 1..Len(products) :
          \A d \in 1..Len(products[p].documents) :
              \E i \in 1..Len(log) :
                  log[i].document.document_id = products[p].documents[d].document_id
    /\ \A i \in 1..Len(OtherDownloadLinks) :
          \A k \in 1..Len(documents) :
              documents[k].source_url # OtherDownloadLinks[i][2]

\* a crawl returned a document found on a page that also had a download
\* link of type "other"
C20_OtherLinkNextToDocument ==
    /\ Returned
    /\ OtherDownloadLinks # <<>>
    /\ \E k \in 1..Len(result.documents) :
          result.documents[k].metadata.page_url = last.url

(***************************************************************************)
(* Counters and the visited set                                            *)
(***************************************************************************)
\* pages_visited + pages_skipped
Counted(s) == s.pages_visited + s.pages_skipped

\* C27: at the while test and at the return, pages_visited + pages_skipped
\* is the size of visited; an iteration that dequeues a URL not yet in
\* visited adds it to visited and adds one to exactly one of the two
\* counters; an iteration that dequeues a URL already in visited changes
\* neither the counters nor visited.
C27_CountersMatchVisited ==
    /\ []((pc = "loop" \/ Returned) => Counted(stats) = Cardinality(visited))
    /\ [](Returned => Counted(result.stats) = Cardinality(visited))
    /\ [][(Dequeues /\ task.url \notin visited) =>
             /\ visited' = visited \cup {task.url}
             /\ \/ /\ stats'.pages_visited = stats.pages_visited + 1
                   /\ stats'.pages_skipped = stats.pages_skipped
                \/ /\ stats'.pages_visited = stats.pages_visited
                   /\ stats'.pages_skipped = stats.pages_skipped + 1]_vars
    /\ [][(Dequeues /\ task.url \in visited) =>
             (stats' = stats /\ visited' = visited)]_vars

\* a crawl returned after a fetched page, a skipped one and, last, a
\* duplicate queue entry
C27_VisitedSkippedAndDuplicate ==
    /\ Returned
    /\ last.kind = "duplicate"
    /\ result.stats.pages_visited >= 1
    /\ result.stats.pages_skipped >= 1

(***************************************************************************)
(* Headings without a body                                                 *)
(***************************************************************************)
\* the lines of a text, after clean_text, that _split_sections takes as
\* headings
HeadingLinesOf(text) ==
    SelectSeq([i \in 1..Len(SplitLines(text)) |-> clean_text(SplitLines(text)[i])],
              LAMBDA l : l # <<>> /\ _looks_like_heading(l))

\* C30: every heading line of the text gives a section of its title in the
\* output of _split_sections, also when no body line follows it.
C30_EveryHeadingIsASection ==
    norm.pc = "segmented" =>
        \A h \in 1..Len(HeadingLinesOf(norm.text)) :
            \E i \in 1..Len(norm.sections) :
                norm.sections[i][1] = HeadingTitle(HeadingLinesOf(norm.text)[h])

(***************************************************************************)
(* normalize without schema or without text                                *)
(***************************************************************************)
\* the category has no schema, or the text is empty
NothingToNormalize ==
    norm.category \notin DOMAIN POLICY_SCHEMAS \/ norm.text = <<>>

\* C23: for a category without schema, or for an empty text, normalize
\* returns no row, and the policy_sections of the product are what they
\* were before.
C23_NoSchemaNoRows ==
    NothingToNormalize =>
        /\ norm.pc \in {"done", "extended"} => norm.rows = <<>>
        /\ norm.policy_sections = <<EarlierRow>>

\* a text with a heading and a body was normalized for the category
\* "other" and the rows were given to the product
C23_OtherCategoryWithSections ==
    /\ norm.pc = "extended"
    /\ norm.category = "other"
    /\ Len(norm.sections) >= 2

(***************************************************************************)
(* The seed URL                                                            *)
(***************************************************************************)
\* C24: for a website URL that is not empty, the seed URL that
\* ensure_url_has_scheme returns has a scheme, and is the website URL itself
\* when that had one.
C24_SeedHasScheme ==
    (pc # "call" /\ insurer.website_url # <<>>) =>
        /\ urlparse(root_url).scheme # <<>>
        /\ urlparse(insurer.website_url).scheme # <<>> => root_url = insurer.website_url

(***************************************************************************)
(* The product_id of a stored document                                     *)
(***************************************************************************)
\* the first pass of _associate_documents over a document of the id
FirstPassOf(document_id) ==
    CHOOSE i \in 1..Len(log) :
        /\ log[i].document.document_id = document_id
        /\ \A j \in 1..(i - 1) : log[j].document.document_id # document_id

\* C25: when a crawl has returned, the entry of the result of every document
\* that some pass matched to a product has a product_id, also when an
\* earlier pass could not associate it; and the product_id a stored entry
\* has is the one its first pass gave it.
C25_MatchedDocumentHasProduct ==
    /\ Returned =>
          \A i \in 1..Len(log) :
              log[i].matched # None =>
                  \E k \in 1..Len(result.documents) :
                      /\ result.documents[k].document_id = log[i].document.document_id
                      /\ result.documents[k].product_id # None
    /\ \A k \in 1..Len(documents) :
          documents[k].product_id # None =>
              documents[k].product_id = log[FirstPassOf(documents[k].document_id)].matched

(***************************************************************************)
(* _infer_document_type on its own: one anchor text and one URL, typed     *)
(* twice                                                                   *)
(***************************************************************************)
\* anchor texts: none, texts with a keyword of one type, of two types (in
\* both orders), a text in capitals, and a text without keyword
AnchorTexts ==
    { <<>>, <<"P","o","l","i","c","y"," ","W","o","r","d","i","n","g">>, <<"D","o","w","n","l","o","a","d"," ","B","r","o","c","h","u","r","e">>, <<"P","r","o","s","p","e","c","t","u","s">>,
      <<"S","a","l","e","s"," ","B","r","o","c","h","u","r","e">>, <<"P","R","O","S","P","E","C","T","U","S"," ","a","n","d"," ","p","o","l","i","c","y"," ","d","o","c","u","m","e","n","t">>,
      <<"L","e","a","f","l","e","t"," ","a","n","d"," ","P","o","l","i","c","y"," ","S","c","h","e","d","u","l","e">>, <<"T","e","r","m","s">> }

\* URLs: none, URLs with a keyword written with a hyphen, an underscore or
\* nothing between the words, and a URL without keyword
Hrefs ==
    { <<>>, <<"h","t","t","p","s",":","/","/","a","/","d","/","f","h","p",".","p","d","f">>, <<"h","t","t","p","s",":","/","/","a","/","p","o","l","i","c","y","-","w","o","r","d","i","n","g","/","f","h","p",".","p","d","f">>,
      <<"h","t","t","p","s",":","/","/","a","/","d","/","P","o","l","i","c","y","W","o","r","d","i","n","g",".","p","d","f">>, <<"h","t","t","p","s",":","/","/","a","/","d","/","p","r","o","d","u","c","t","_","b","r","o","c","h","u","r","e",".","p","d","f">>,
      <<"h","t","t","p","s",":","/","/","a","/","d","/","s","a","l","e","s","-","b","r","o","c","h","u","r","e",".","p","d","f">>, <<"h","t","t","p","s",":","/","/","a","/","p","r","o","s","p","e","c","t","u","s","/","p","o","l","i","c","y","_","d","o","c","u","m","e","n","t",".","p","d","f">> }

InferInit ==
    /\ infer \in [pc : {"start"}, anchor_text : AnchorTexts, href : Hrefs,
                  type : {"none"}, again : {"none"}]
    /\ norm = NotStarted
    /\ merge = NotStarted
    /\ run = NotStarted
    /\ db = NotStarted
    /\ insurer = None /\ config = None /\ pc = "none" /\ root_url = <<>>
    /\ queue = <<>> /\ visited = {} /\ products = <<>> /\ documents = <<>>
    /\ stats = <<>> /\ result = None /\ attempts = <<>> /\ last = NoEvent
    /\ seen_products = <<>> /\ log = <<>> /\ graph = <<>>

\* _infer_document_type(anchor_text, href)
InferType ==
    /\ infer.pc = "start"
    /\ infer' = [infer EXCEPT
                   !.pc = "typed",
                   !.type = _infer_document_type(infer.anchor_text, infer.href)]
    /\ UNCHANGED <<crawl, graph, norm, merge, run, db>>

\* the same call once more
InferTypeAgain ==
    /\ infer.pc = "typed"
    /\ infer' = [infer EXCEPT
                   !.pc = "again",
                   !.again = _infer_document_type(infer.anchor_text, infer.href)]
    /\ UNCHANGED <<crawl, graph, norm, merge, run, db>>

InferNext == InferType \/ InferTypeAgain

InferSpec == InferInit /\ [][InferNext]_vars

\* the types one of whose keywords is in the lower-cased anchor text
TypesInText(anchor_text) ==
    {i \in 1..Len(DOCUMENT_KEYWORDS) :
        \E k \in 1..Len(DOCUMENT_KEYWORDS[i].keywords) :
            Contains(Lower(anchor_text), DOCUMENT_KEYWORDS[i].keywords[k])}

\* the types one of whose keywords is in the lower-cased URL, with "-" and
\* "_" read as spaces or with the keyword written without spaces
TypesInUrl(href) ==
    {i \in 1..Len(DOCUMENT_KEYWORDS) :
        \E k \in 1..Len(DOCUMENT_KEYWORDS[i].keywords) :
            \/ Contains(ReplaceChar(ReplaceChar(Lower(href), "-", " "), "_", " "),
                        DOCUMENT_KEYWORDS[i].keywords[k])
            \/ Contains(Lower(href),
                        SelectSeq(DOCUMENT_KEYWORDS[i].keywords[k], LAMBDA c : c # " "))}

\* the first type of a non-empty set of positions of DOCUMENT_KEYWORDS
FirstType(positions) ==
    DOCUMENT_KEYWORDS[CHOOSE i \in positions : \A j \in positions : i <= j].type

\* C21: the type is the same when the call is repeated; it is the first
\* type with a keyword in the anchor text, whatever the URL, when there is
\* one; else the first type with a keyword in the URL; else "other".
C21_AnchorTextFirst ==
    /\ infer.pc = "again" => infer.again = infer.type
    /\ infer.pc \in {"typed", "again"} =>
          /\ TypesInText(infer.anchor_text) # {} =>
                /\ infer.type = FirstType(TypesInText(infer.anchor_text))
                /\ \A h \in Hrefs :
                      _infer_document_type(infer.anchor_text, h) = infer.type
          /\ (TypesInText(infer.anchor_text) = {} /\ TypesInUrl(infer.href) # {}) =>
                infer.type = FirstType(TypesInUrl(infer.href))
          /\ (TypesInText(infer.anchor_text) = {} /\ TypesInUrl(infer.href) = {}) =>
                infer.type = "other"

\* a text with keywords of two types was typed with a URL that has a
\* keyword of a third
C21_TextAndUrlDisagree ==
    /\ infer.pc = "again"
    /\ Cardinality(TypesInText(infer.anchor_text)) >= 2
    /\ TypesInUrl(infer.href) # {}
    /\ TypesInUrl(infer.href) \cap TypesInText(infer.anchor_text) = {}

(***************************************************************************)
(* crawl_insurer on a site whose pages show the heading "Family Health     *)
(* Plan" and the anchor "Download Policy Wording"                          *)
(***************************************************************************)
H_FamilyHealthPlan == Heading(<<"F","a","m","i","l","y"," ","H","e","a","l","t","h"," ","P","l","a","n">>, <<>>)

A_DownloadPolicyWording == Anchor(<<"/","d","o","c","s","/","f","h","p",".","p","d","f">>, <<"D","o","w","n","l","o","a","d"," ","P","o","l","i","c","y"," ","W","o","r","d","i","n","g">>)

\* the same file, under an anchor text that names the product
A_FamilyHealthPlanWording ==
    Anchor(<<"/","d","o","c","s","/","f","h","p",".","p","d","f">>, <<"F","a","m","i","l","y"," ","H","e","a","l","t","h"," ","P","l","a","n"," ","P","o","l","i","c","y"," ","W","o","r","d","i","n","g">>)

ScenarioContents ==
    { [headings |-> <<H_FamilyHealthPlan>>, anchors |-> <<A_DownloadPolicyWording>>,
       text |-> <<>>],
      [headings |-> <<H_FamilyHealthPlan, H_MotorPlan>>,
       anchors |-> <<A_DownloadPolicyWording>>, text |-> <<>>],
      [headings |-> <<H_FamilyHealthPlan, H_MotorPlan>>,
       anchors |-> <<A_FamilyHealthPlanWording>>, text |-> <<>>] }

ScenarioPages ==
    {[c EXCEPT !.anchors = @ \o links] : c \in ScenarioContents, links \in LinkLists}

IterScenarioPage == IterPageOf(ScenarioPages) /\ UNCHANGED others

ScenarioNext ==
    \/ CrawlNoWebsite
    \/ CrawlBegin
    \/ IterAlreadyVisited
    \/ IterDepthExceeded
    \/ IterFetchFailed
    \/ IterScenarioPage
    \/ CrawlReturn

ScenarioSpec == Init /\ [][ScenarioNext]_vars

\* the crawl returned after fetching a single page, which held the heading
\* "Family Health Plan", no other product, and one document, the PDF behind
\* the anchor "Download Policy Wording"
SinglePageScenario ==
    /\ Returned
    /\ result.stats.pages_visited = 1
    /\ Len(seen_products) = 1
    /\ seen_products[1].name = <<"F","a","m","i","l","y"," ","H","e","a","l","t","h"," ","P","l","a","n">>
    /\ Len(log) = 1
    /\ log[1].document.metadata.anchor_text = <<"D","o","w","n","l","o","a","d"," ","P","o","l","i","c","y"," ","W","o","r","d","i","n","g">>
    /\ EndsWith(log[1].document.source_url, <<"/","f","h","p",".","p","d","f">>)

\* the result holds one product named "Family Health Plan" and one document,
\* of type policy_wording, whose product_id is the id of that product
OneProductOneDocument ==
    /\ Len(result.products) = 1
    /\ result.products[1].name = <<"F","a","m","i","l","y"," ","H","e","a","l","t","h"," ","P","l","a","n">>
    /\ Len(result.documents) = 1
    /\ result.documents[1].document_type = "policy_wording"
    /\ result.documents[1].product_id = result.products[1].product_id

\* the anchor text of the document of pass i contains the name of a product
\* found on the page
NameInAnchorText(i) ==
    \E k \in 1..Len(log[i].page_products) :
        Contains(Lower(log[i].document.metadata.anchor_text),
                 Lower(log[i].page_products[k].name))

C22_TwoProductsNoAssociation ==
    /\ Returned
    /\ result.stats.pages_visited = 1
    /\ Len(log) = 1
    /\ Len(log[1].page_products) = 2
    /\ log[1].document.metadata.anchor_text = <<"D","o","w","n","l","o","a","d"," ","P","o","l","i","c","y"," ","W","o","r","d","i","n","g">>
    /\ result.documents[1].product_id = None

(***************************************************************************)
(* Coverage of the crawl within max_depth                                  *)
(***************************************************************************)
\* the crawl returned with budget left: the queue ran empty
ReturnedUnderBudget ==
    Returned /\ result.stats.pages_visited < config.max_pages_per_insurer

\* the URLs marked visited by the depth check, without a fetch
SkippedAsTooDeep == {u \in visited : AttemptsOf(u).count = 0}

\* C26: when a crawl returns with pages_visited < max_pages_per_insurer, every
\* URL within max_depth links of the seed, through the pages that were
\* fetched, was fetch-attempted exactly once; and a URL marked visited by the
\* depth check is never one that is within max_depth links of the seed.
C26_ReachableFetchedOnce ==
    /\ ReturnedUnderBudget =>
          \A u \in Within(config.max_depth) : AttemptsOf(u).count = 1
    /\ pc # "call" => SkippedAsTooDeep \cap Within(config.max_depth) = {}

\* a crawl returned with budget left after it dequeued, beyond max_depth, a
\* URL that is also within max_depth links of the seed and was fetched once
C26_ShortAndLongPath ==
    /\ ReturnedUnderBudget
    /\ last.kind = "duplicate"
    /\ last.depth > config.max_depth
    /\ last.url \in Within(config.max_depth)
    /\ AttemptsOf(last.url).count = 1

(***************************************************************************)
(* Referential integrity of the result                                     *)
(***************************************************************************)
\* the product of product_list a document refers to exists, with the
\* insurer_id of the document
RefersToProductOf(document, product_list) ==
    \E j \in 1..Len(product_list) :
        /\ product_list[j].product_id = document.product_id
        /\ product_list[j].insurer_id = document.insurer_id

\* C28: every document with a product_id, in the documents dict during the
\* crawl and in the result returned, refers to a product of the same
\* insurer_id that is in the products dict, respectively in result.products.
C28_DocumentsReferToProducts ==
    /\ \A k \in 1..Len(documents) :
          documents[k].product_id # None => RefersToProductOf(documents[k], products)
    /\ Returned =>
          \A k \in 1..Len(result.documents) :
              result.documents[k].product_id # None =>
                  RefersToProductOf(result.documents[k], result.products)

\* a crawl returned two products and a document associated to one of them
C28_AssociatedAmongTwoProducts ==
    /\ Returned
    /\ Len(result.products) >= 2
    /\ \E k \in 1..Len(result.documents) : result.documents[k].product_id # None

(***************************************************************************)
(* The policy sections of one product, from the documents associated to it *)
(* to the table policy_sections of the repository                          *)
(***************************************************************************)
\* most documents associated to the product
MaxWordings == 2

\* extracted texts of the documents
WordingTexts ==
    { <<>>, <<"x">>, <<"C","l","a","i","m","s","\n","c","a","l","l"," ","u","s",".">>, <<"B","e","n","e","f","i","t","s","\n","p","a","i","d",".">>,
      <<"C","l","a","i","m","s","\n","c","a","l","l"," ","u","s",".","\n","E","X","C","L","U","S","I","O","N","S",":","\n","w","a","r",".">> }

\* the documents matched to the product, by type and extracted text
WordingKinds == [document_type : {"policy_wording", "brochure"}, extracted_text : WordingTexts]

\* ON CONFLICT(product_id, section_name): the position of the row, 0 for none
IndexOfRow(table, row) ==
    IF \E i \in 1..Len(table) : /\ table[i].product_id = row.product_id
                                /\ table[i].section_name = row.section_name
    THEN CHOOSE i \in 1..Len(table) : /\ table[i].product_id = row.product_id
                                      /\ table[i].section_name = row.section_name
    ELSE 0

\* the INSERT ... ON CONFLICT DO UPDATE of upsert_policy_sections for one row
UpsertRow(table, section) ==
    LET i == IndexOfRow(table, section)
    IN  IF i # 0
        THEN [table EXCEPT ![i] =
                [@ EXCEPT !.section_body       = section.content,
                          !.confidence         = section.confidence,
                          !.schema_version     = section.schema_version,
                          !.source_document_id = section.source_document_id]]
        ELSE Append(table, [product_id         |-> section.product_id,
                            category           |-> section.category,
                            schema_version     |-> section.schema_version,
                            section_name       |-> section.section_name,
                            section_body       |-> section.content,
                            confidence         |-> section.confidence,
                            source_document_id |-> section.source_document_id])

\* InsuranceRepository.upsert_policy_sections: executemany over the rows, in
\* order
RECURSIVE upsert_policy_sections(_, _)
upsert_policy_sections(table, sections) ==
    IF sections = <<>> THEN table
    ELSE upsert_policy_sections(UpsertRow(table, Head(sections)), Tail(sections))

UpsertInit ==
    /\ db \in [pc      : {"crawl"},
               product : {[product_id |-> <<"i","-","p">>, category |-> "health",
                           policy_sections |-> <<>>]},
               pending : SeqsUpTo(WordingKinds, MaxWordings),
               seen    : {0},
               table   : {<<>>}]
    /\ norm = NotStarted
    /\ merge = NotStarted
    /\ run = NotStarted
    /\ insurer = None /\ config = None /\ pc = "none" /\ root_url = <<>>
    /\ queue = <<>> /\ visited = {} /\ products = <<>> /\ documents = <<>>
    /\ stats = <<>> /\ result = None /\ attempts = <<>> /\ last = NoEvent
    /\ seen_products = <<>> /\ log = <<>> /\ graph = <<>>
    /\ infer = NotStarted

\* _associate_documents for the next document matched to the product: the
\* rows of normalize are appended for a policy wording with a text
AssociateWording ==
    /\ db.pc = "crawl"
    /\ db.pending # <<>>
    /\ LET processed == [document_id    |-> <<"d", Digits[db.seen + 1]>>,
                         document_type  |-> Head(db.pending).document_type,
                         extracted_text |-> Head(db.pending).extracted_text]
       IN  db' = [db EXCEPT
                    !.pending = Tail(@),
                    !.seen    = @ + 1,
                    !.product =
                        IF /\ processed.document_type = "policy_wording"
                           /\ processed.extracted_text # <<>>
                        THEN extend_policy_sections(@, normalize(@, processed))
                        ELSE @]
    /\ UNCHANGED <<crawl, graph, infer, norm, merge, run>>

\* InsuranceDataPipeline.run: the policy sections of the product of the
\* result are collected and upserted
PersistSections ==
    /\ db.pc = "crawl"
    /\ db.pending = <<>>
    /\ db' = [db EXCEPT
                !.pc    = "stored",
                !.table = upsert_policy_sections(@, db.product.policy_sections)]
    /\ UNCHANGED <<crawl, graph, infer, norm, merge, run>>

UpsertNext == AssociateWording \/ PersistSections

UpsertSpec == UpsertInit /\ [][UpsertNext]_vars

\* the stored row of a section of a product
StoredRow(product_id, section_name) ==
    CHOOSE r \in Range(db.table) :
        r.product_id = product_id /\ r.section_name = section_name

\* C29: once the sections of a product are persisted, the stored row of every
\* section for which some policy-wording document of the product yielded a
\* non-empty match is not an empty row of confidence zero.
C29_PopulatedRowKept ==
    db.pc = "stored" =>
        \A i \in 1..Len(db.product.policy_sections) :
            LET section == db.product.policy_sections[i]
            IN  section.content # <<>> =>
                    ~ /\ StoredRow(section.product_id, section.section_name).section_body = <<>>
                      /\ StoredRow(section.product_id, section.section_name).confidence = 0
====
